---- MODULE Spec2Model ----
(***************************************************************************)
(* Flow402 credit gateway: the idempotency store, the ledger RPCs          *)
(* (increment_balance / deduct_balance), and the request handlers of       *)
(* POST /api/gateway/deduct, POST /api/topup/mock and POST                 *)
(* /api/topup/reset, as a state machine over the three tables              *)
(* idempotency_keys, credits and tx_ledger.                                *)
(*                                                                         *)
(* Granularity.  Every `await` on the store is one step.  The two RPCs run *)
(* inside one Postgres transaction each, at READ COMMITTED: the leading    *)
(* SELECT on tx_ledger is one step; everything from the first write on     *)
(* (which takes the row lock on credits and holds it until commit, and     *)
(* whose ledger insert is decided by the unique index at commit) is a      *)
(* second step, since no other transaction can observe or change what it   *)
(* touches in between.                                                     *)
(***************************************************************************)
EXTENDS Integers, Sequences, FiniteSets, TLC

\* ------------------------------------------------------------------------
\* Bounds of the model
\* ------------------------------------------------------------------------
MaxReq == 2
MaxTicks == 2
MaxAmount == 2
MaxInitBalance == 2
NumRefs == 2
MaxCalls == 3
StartSec == 1000
MaxSignTime == 2
MaxMutations == 2

\* ------------------------------------------------------------------------
\* Program constants
\* ------------------------------------------------------------------------
DEFAULT_TTL_MS == 24 * 60 * 60 * 1000

tenantId == "0b7d4b0a-6e10-4db4-8571-2c74e07bcb35"
otherTenantId == "1c8e5c1b-7f21-4ec5-9682-3d85f18cdc46"
Tenants == {tenantId, otherTenantId}
Users == {"u1", "u2"}
Keys == {"k1", "k2"}
NoKey == "-"
Reqs == 1..MaxReq
Amounts == 1..MaxAmount

\* A ref is a prefix and a number: client refs, dashboard_topup_<ms>,
\* manual_reset_<ms>.
Ref(p, n) == [p |-> p, n |-> n]
ClientRefs == {Ref("ref", i) : i \in 1..NumRefs}
SeedRef == Ref("seed", 0)

NoNum == 0 - 1

VARIABLES idempotency_keys, credits, tx_ledger, vendor_users, now, ticks, req, hist

vars == <<idempotency_keys, credits, tx_ledger, vendor_users, now, ticks, req, hist>>
dbvars == <<idempotency_keys, credits, tx_ledger, vendor_users>>

\* ------------------------------------------------------------------------
\* Tables
\* ------------------------------------------------------------------------
TU(t, u) == <<t, u>>

\* credits row lookup, coalesce(balance, 0)
BalanceOf(cr, t, u) == IF TU(t, u) \in DOMAIN cr THEN cr[TU(t, u)] ELSE 0

SetBalance(cr, t, u, b) ==
    [x \in (DOMAIN cr) \cup {TU(t, u)} |-> IF x = TU(t, u) THEN b ELSE cr[x]]

LedgerRow(t, u, kind, amount, ref) ==
    [tenant_id |-> t, user_id |-> u, kind |-> kind, amount_cents |-> amount, ref |-> ref]

RefRows(ledger, t, ref) ==
    {i \in 1..Len(ledger) : ledger[i].tenant_id = t /\ ledger[i].ref = ref}

\* select kind from tx_ledger where tenant_id = t and ref = ref limit 1
ExistingKind(ledger, t, ref) ==
    IF RefRows(ledger, t, ref) = {} THEN "none"
    ELSE ledger[CHOOSE i \in RefRows(ledger, t, ref) :
                    \A j \in RefRows(ledger, t, ref) : i <= j].kind

\* mutant: the unique index is missing
tx_ledger_no_idx(ledger, row) == TRUE

\* unique index tx_ledger_tenant_ref_idx on (tenant_id, ref)
tx_ledger_tenant_ref_idx(ledger, row) == RefRows(ledger, row.tenant_id, row.ref) = {}

RpcOk(cr, ledger, v) == [credits |-> cr, ledger |-> ledger, ok |-> TRUE, err |-> "", value |-> v]
RpcErr(cr, ledger, code) == [credits |-> cr, ledger |-> ledger, ok |-> FALSE, err |-> code, value |-> NoNum]

\* each RPC validates its arguments first
ArgError(amount) == IF amount <= 0 THEN "22023" ELSE ""

\* ---- increment_balance ---------------------------------------------------
\* the kinds whose ledger entry makes a repeated credit an idempotent replay
IsReplayKind(kind) == kind = "topup"

\* the upsert of credits and the insert into tx_ledger, or the early return
IncWrite(cr, ledger, t, u, amount, kind, ref, found) ==
    IF ArgError(amount) # "" THEN RpcErr(cr, ledger, ArgError(amount))
    ELSE IF found # "none" THEN
        IF ~IsReplayKind(found) THEN RpcErr(cr, ledger, "P0002")
        ELSE RpcOk(cr, ledger, BalanceOf(cr, t, u))
    ELSE IF ~tx_ledger_tenant_ref_idx(ledger, LedgerRow(t, u, kind, amount, ref))
        THEN RpcErr(cr, ledger, "23505")
    ELSE RpcOk(SetBalance(cr, t, u, BalanceOf(cr, t, u) + amount),
               Append(ledger, LedgerRow(t, u, kind, amount, ref)),
               BalanceOf(cr, t, u) + amount)

increment_balance(cr, ledger, t, u, amount, kind, ref) ==
    IncWrite(cr, ledger, t, u, amount, kind, ref, ExistingKind(ledger, t, ref))

\* ---- deduct_balance ------------------------------------------------------
\* mutant: the update without its balance_cents >= p_amount condition
CanDeduct_NoFloor(cr, t, u, amount) == TU(t, u) \in DOMAIN cr

\* mutant: the update asks for more than the amount
CanDeduct_Strict(cr, t, u, amount) == TU(t, u) \in DOMAIN cr /\ cr[TU(t, u)] > amount

\* where c.tenant_id = p_tenant and c.user_id = p_user and c.balance_cents >= p_amount
CanDeduct(cr, t, u, amount) == TU(t, u) \in DOMAIN cr /\ cr[TU(t, u)] >= amount

\* mutant: the balance is lowered but the journal insert is left out
DedWrite_NoJournal(cr, ledger, t, u, amount, ref, found) ==
    IF found # "none" \/ ~CanDeduct(cr, t, u, amount) THEN RpcErr(cr, ledger, "P0001")
    ELSE RpcOk(SetBalance(cr, t, u, cr[TU(t, u)] - amount), ledger, cr[TU(t, u)] - amount)

\* mutant: an existing deduct entry of the ref is not taken as a replay
DedWrite_NoReplay(cr, ledger, t, u, amount, ref, found) ==
    IF ~CanDeduct(cr, t, u, amount) THEN RpcErr(cr, ledger, "P0001")
    ELSE IF ~tx_ledger_tenant_ref_idx(ledger, LedgerRow(t, u, "deduct", amount, ref))
        THEN RpcErr(cr, ledger, "23505")
    ELSE RpcOk(SetBalance(cr, t, u, cr[TU(t, u)] - amount),
               Append(ledger, LedgerRow(t, u, "deduct", amount, ref)),
               cr[TU(t, u)] - amount)

DedWrite(cr, ledger, t, u, amount, ref, found) ==
    IF ArgError(amount) # "" THEN RpcErr(cr, ledger, ArgError(amount))
    ELSE IF found # "none" THEN
        IF found # "deduct" THEN RpcErr(cr, ledger, "P0003")
        ELSE RpcOk(cr, ledger, BalanceOf(cr, t, u))
    ELSE IF ~CanDeduct(cr, t, u, amount) THEN RpcErr(cr, ledger, "P0001")
    ELSE IF ~tx_ledger_tenant_ref_idx(ledger, LedgerRow(t, u, "deduct", amount, ref))
        THEN RpcErr(cr, ledger, "23505")
    ELSE RpcOk(SetBalance(cr, t, u, cr[TU(t, u)] - amount),
               Append(ledger, LedgerRow(t, u, "deduct", amount, ref)),
               cr[TU(t, u)] - amount)

deduct_balance(cr, ledger, t, u, amount, ref) ==
    DedWrite(cr, ledger, t, u, amount, ref, ExistingKind(ledger, t, ref))

\* ---- vendor_users ---------------------------------------------------------
\* a row of vendor_users is <<vendor_id, user_id, n>>, n telling the rows of one
\* (vendor_id, user_id) apart
VendorUserRows(vu, t, u) == {x \in vu : x[1] = t /\ x[2] = u}

InsertVendorUser(vu, t, u) == vu \cup {<<t, u, Cardinality(VendorUserRows(vu, t, u)) + 1>>}

\* mutant: the table has no primary key
vendor_users_no_pkey(vu, t, u) == TRUE

\* primary key (vendor_id, user_id)
vendor_users_pkey(vu, t, u) == VendorUserRows(vu, t, u) = {}

\* ------------------------------------------------------------------------
\* HTTP layer: request and response shapes
\* ------------------------------------------------------------------------
METHOD == "POST"
DeductPath == "/api/gateway/deduct"
TopupPath == "/api/topup/mock"

routePath(ep) == IF ep = "deduct" THEN DeductPath ELSE TopupPath

\* A response body: ok is "true", "false" or "absent" (the 402 envelope has no
\* ok field); n is new_balance, price_credits or previous_balance_credits.
Body(ok, error, n, user) == [ok |-> ok, error |-> error, n |-> n, user |-> user]
NullBody == Body("null", "", NoNum, "")
NullStatus == 0

OkBalance(n) == Body("true", "", n, "")
OkPlain == Body("true", "", NoNum, "")
ErrBody(code) == Body("false", code, NoNum, "")
\* mutant: the envelope built from the fallbacks of an unparsed body
Envelope402_Fallback(amount, userId) == Body("absent", "", 0, "unknown")

\* { price_credits, currency: "USDC", topup_url: /topup?need=<amount>&user=<userId> }
Envelope402(amount, userId) == Body("absent", "", amount, userId)

\* the raw request body (json: the text parses as JSON) and its SHA-256
\* (collision-free on the bodies of the model)
RawBody(q) == [userId |-> q.userId, ref |-> q.ref, amount |-> q.amount, json |-> q.json]
hashBody(raw) == <<"sha256", raw>>

\* { error: "invalid_signature", reason, request_id }
InvalidSignature(reason) ==
    [ok |-> "absent", error |-> "invalid_signature", n |-> NoNum, user |-> "", reason |-> reason]

\* x-f402-sig, the legacy x-flow402-signature and x-f402-body-sha; <<>> is a header
\* that is absent or empty
NoHeaders == [sig |-> <<>>, legacy |-> <<>>, bodySha |-> <<>>]

NoRef == Ref("-", 0)

IdleReq ==
    [pc |-> "idle", ep |-> "-", key |-> NoKey, userId |-> "-", ref |-> NoRef,
     amount |-> 0, claim |-> "none", claimed |-> FALSE, evictions |-> 0,
     released |-> FALSE, wrote |-> FALSE, balance |-> NoNum, rpcRef |-> NoRef,
     found |-> "none", status |-> NullStatus, body |-> NullBody,
     vendorKey |-> "", hdr |-> NoHeaders, json |-> TRUE, respHdr |-> NoHeaders,
     claimedAt |-> NoNum]

\* mutant: every body passes validation
ParseBody_AcceptsAll(raw) == "ok"

\* Body.parse(JSON.parse(text)): JSON.parse throws a SyntaxError, the schema
\* (amount_credits a positive integer) a ZodError; users and refs of the model
\* stand for well-formed values
ParseBody(raw) ==
    IF ~raw.json THEN "SyntaxError"
    ELSE IF raw.amount <= 0 THEN "ZodError"
    ELSE "ok"

\* NextResponse.json(payload, { status }): the response headers that are set
ResponseInit(status) == [status |-> status, headers |-> NoHeaders]

\* ------------------------------------------------------------------------
\* hmac: computeSig, parseSignatureHeader, verify
\* ------------------------------------------------------------------------
ALLOWED_SKEW_SECONDS == 5 * 60

\* crypto.createHmac("sha256", secret).update(`${ts}.${body}`), collision-free
hmacSha256(secret, ts, body) == <<"hmac", secret, ts, body>>

\* the header `t=${ts},v1=${digest}` as its comma-separated key=value parts
computeSig(secret, body, ts) ==
    [header |-> <<[key |-> "t", value |-> ts], [key |-> "v1", value |-> hmacSha256(secret, ts, body)]>>,
     digest |-> hmacSha256(secret, ts, body),
     timestamp |-> ts]

\* Number.parseInt(value, 10) reads the leading digits of the value and ignores what
\* follows them (a part with such a rest carries the field junk); NoNum is NaN
parseInt(part) == part.value

\* the parts with this key whose value is kept: a t= whose value is no number is skipped
PartsOf(header, key) ==
    {i \in 1..Len(header) : header[i].key = key /\ (key = "t" => parseInt(header[i]) # NoNum)}
LastPart(header, key) == header[CHOOSE i \in PartsOf(header, key) :
                                    \A j \in PartsOf(header, key) : j <= i].value

\* mutant: only a missing t= part makes the header malformed
Falsy_NullOnly(timestamp) == timestamp = NoNum

\* !timestamp: null and 0 alike
Falsy(timestamp) == timestamp = NoNum \/ timestamp = 0

\* the loop over the parts keeps the last t= and the last v1= value
parseSignatureHeader(header) ==
    LET timestamp == IF PartsOf(header, "t") = {} THEN NoNum ELSE LastPart(header, "t")
        signature == IF PartsOf(header, "v1") = {} THEN <<>> ELSE LastPart(header, "v1")
    IN IF Falsy(timestamp) \/ signature = <<>>
        THEN [ok |-> FALSE, timestamp |-> NoNum, signature |-> <<>>]
        ELSE [ok |-> TRUE, timestamp |-> timestamp, signature |-> signature]

timingSafeEqualHex(a, b) == a # <<>> /\ b # <<>> /\ a = b

Abs(x) == IF x < 0 THEN 0 - x ELSE x

VerifyFail(reason) == [ok |-> FALSE, reason |-> reason]
VerifyOk == [ok |-> TRUE, reason |-> ""]

\* mutant: the skew window is not looked at
OutOfWindow_Never(clock, timestamp) == FALSE

\* Math.abs(now - timestamp) > ALLOWED_SKEW_SECONDS
OutOfWindow(clock, timestamp) == Abs(clock - timestamp) > ALLOWED_SKEW_SECONDS

\* the first of x-f402-sig, x-flow402-signature that has a value
getSignatureHeader(headers) ==
    IF headers.sig # <<>> THEN headers.sig ELSE headers.legacy

verify(headers, body, secret, clock) ==
    LET headerValue == getSignatureHeader(headers)
        parsed == parseSignatureHeader(headerValue)
    IN
    IF headerValue = <<>> THEN VerifyFail("missing_signature_header")
    ELSE IF ~parsed.ok THEN VerifyFail("invalid_signature_format")
    ELSE IF OutOfWindow(clock, parsed.timestamp) THEN VerifyFail("timestamp_out_of_window")
    ELSE IF headers.bodySha = <<>> THEN VerifyFail("missing_body_hash")
    ELSE IF ~timingSafeEqualHex(headers.bodySha, hashBody(body))
        THEN VerifyFail("body_hash_mismatch")
    ELSE IF ~timingSafeEqualHex(parsed.signature, computeSig(secret, body, parsed.timestamp).digest)
        THEN VerifyFail("signature_mismatch")
    ELSE VerifyOk

\* Math.floor(Date.now() / 1000); the clock of the model counts the milliseconds
\* since the service started, at Unix time StartSec
UnixSeconds(clock) == StartSec + (clock \div 1000)

\* ------------------------------------------------------------------------
\* tenants table and Flow402Dal.getVendorByKey
\* ------------------------------------------------------------------------
tenants ==
    {[id |-> tenantId, slug |-> "demo", api_key |-> "vk_demo_key",
      signing_secret |-> "s_T"],
     [id |-> otherTenantId, slug |-> "acme", api_key |-> "vk_acme_key",
      signing_secret |-> "s_T2"]}

NoVendor == [id |-> "", slug |-> "", api_key |-> "", signing_secret |-> ""]

\* String.prototype.trim on the model's strings
RECURSIVE trimStart(_)
trimStart(s) == IF Len(s) > 0 /\ Head(s) = " " THEN trimStart(Tail(s)) ELSE s

RECURSIVE trimEnd(_)
trimEnd(s) ==
    IF Len(s) > 0 /\ SubSeq(s, Len(s), Len(s)) = " "
        THEN trimEnd(SubSeq(s, 1, Len(s) - 1))
        ELSE s

trim(s) == trimEnd(trimStart(s))

\* z.string().min(4)
apiKeySchema(s) == Len(s) >= 4

HexDigits == {"0", "1", "2", "3", "4", "5", "6", "7", "8", "9",
              "a", "b", "c", "d", "e", "f", "A", "B", "C", "D", "E", "F"}

\* z.string().uuid(): five groups of 8-4-4-4-12 hex digits joined by hyphens
uuidSchema(s) ==
    /\ Len(s) = 36
    /\ \A i \in 1..36 :
        IF i \in {9, 14, 19, 24} THEN SubSeq(s, i, i) = "-"
        ELSE SubSeq(s, i, i) \in HexDigits

\* select ... from tenants where <column> = value, maybeSingle()
fetchVendor(tbl, column, value) ==
    IF \E v \in tbl : v[column] = value
        THEN CHOOSE v \in tbl : v[column] = value
        ELSE NoVendor

VendorResult(vendor, error) == [vendor |-> vendor, error |-> error]

\* mutant: the slug is looked up before the api_key
Candidates_SlugFirst(parsedKey) ==
    <<"slug", "api_key">> \o (IF uuidSchema(parsedKey) THEN <<"id">> ELSE <<>>)

\* the columns that are tried, in order
Candidates(parsedKey) ==
    <<"api_key", "slug">> \o (IF uuidSchema(parsedKey) THEN <<"id">> ELSE <<>>)

RECURSIVE FirstVendor(_, _, _)
FirstVendor(tbl, candidates, value) ==
    IF candidates = <<>> THEN VendorResult(NoVendor, "vendor_not_found")
    ELSE IF fetchVendor(tbl, Head(candidates), value) # NoVendor
        THEN VendorResult(fetchVendor(tbl, Head(candidates), value), "")
    ELSE FirstVendor(tbl, Tail(candidates), value)

\* Flow402Dal.getVendorByKey on a tenants table
getVendorByKeyIn(tbl, apiKey) ==
    LET parsedKey == trim(apiKey) IN
    IF ~apiKeySchema(parsedKey) THEN VendorResult(NoVendor, "validation_error")
    ELSE FirstVendor(tbl, Candidates(parsedKey), parsedKey)

getVendorByKey(apiKey) == getVendorByKeyIn(tenants, apiKey)

\* ------------------------------------------------------------------------
\* IdempotencyStore
\* ------------------------------------------------------------------------
IdemRow(method, path, sha, created) ==
    [method |-> method, path |-> path, body_sha |-> sha,
     response_status |-> NullStatus, response_body |-> NullBody, created_at |-> created]

DelKey(tbl, k) == [x \in (DOMAIN tbl) \ {k} |-> tbl[x]]
PutKey(tbl, k, row) == [x \in (DOMAIN tbl) \cup {k} |-> IF x = k THEN row ELSE tbl[x]]

\* mutant: rows never live: every existing row counts as expired
isExpired_Always(record, ttlMs, clock) == TRUE

\* mutant: a row aged exactly the TTL counts as expired
isExpired_AtTtl(record, ttlMs, clock) == clock - record.created_at >= ttlMs

\* Date.now() - createdAt > ttlMs
isExpired(record, ttlMs, clock) == clock - record.created_at > ttlMs

\* mutant: the payload comparison leaves body_sha out
Decide_IgnoresSha(existing, method, path, sha) ==
    IF existing.method # method \/ existing.path # path THEN "conflict"
    ELSE IF existing.response_status # NullStatus /\ existing.response_body # NullBody
        THEN "replay"
    ELSE "locked"

\* mutant: a reserved row is replayed too, with its null response
Decide_ReplaysReserved(existing, method, path, sha) ==
    IF existing.method # method \/ existing.path # path \/ existing.body_sha # sha
        THEN "conflict"
    ELSE "replay"

\* mutant: a completed row is replayed before the payload is compared
Decide_CompletedFirst(existing, method, path, sha) ==
    IF existing.response_status # NullStatus /\ existing.response_body # NullBody
        THEN "replay"
    ELSE IF existing.method # method \/ existing.path # path \/ existing.body_sha # sha
        THEN "conflict"
    ELSE "locked"

\* the decision of claim() on an existing, unexpired row
Decide(existing, method, path, sha) ==
    IF existing.method # method \/ existing.path # path \/ existing.body_sha # sha
        THEN "conflict"
    ELSE IF existing.response_status # NullStatus /\ existing.response_body # NullBody
        THEN "replay"
    ELSE "locked"

\* mutant: the stored status is always 200
persistResponse_Status200(tbl, k, status, body) ==
    IF k \in DOMAIN tbl
        THEN [tbl EXCEPT ![k].response_status = 200, ![k].response_body = body]
        ELSE tbl

\* mutant: the status is stored without the body
persistResponse_NoBody(tbl, k, status, body) ==
    IF k \in DOMAIN tbl THEN [tbl EXCEPT ![k].response_status = status] ELSE tbl

\* update idempotency_keys set response_status, response_body where id = k
persistResponse(tbl, k, status, body) ==
    IF k \in DOMAIN tbl
        THEN [tbl EXCEPT ![k].response_status = status, ![k].response_body = body]
        ELSE tbl

\* delete from idempotency_keys where id = k
release(tbl, k) == DelKey(tbl, k)

\* ------------------------------------------------------------------------
\* Initial state: an empty idempotency store; the demo user holds an opening
\* balance that was granted by a top-up (so the journal accounts for it).
\* ------------------------------------------------------------------------
Init ==
    /\ idempotency_keys = <<>>
    /\ \E b \in 0..MaxInitBalance :
        /\ credits = IF b = 0 THEN <<>> ELSE SetBalance(<<>>, tenantId, "u1", b)
        /\ tx_ledger = IF b = 0 THEN <<>>
                       ELSE <<LedgerRow(tenantId, "u1", "topup", b, SeedRef)>>
    /\ vendor_users = {}
    /\ now = 0
    /\ ticks = 0
    /\ req = [r \in Reqs |-> IdleReq]
    /\ hist = <<>>

Set(r, q) == req' = [req EXCEPT ![r] = q]
Respond(q, pc, status, body) ==
    [q EXCEPT !.pc = pc, !.status = status, !.body = body,
              !.respHdr = ResponseInit(status).headers]

\* the steps that read the clock: created_at (insert), isExpired, Date.now() in a ref
ReadsClock(q) ==
    \/ q.pc \in {"claim_insert", "claim_read", "reset_ledger"}
    \/ q.pc = "rpc_select" /\ q.ep = "topup"

\* the clock advances by a millisecond or by a whole TTL; time that passes while
\* no handler is about to read the clock is the same as time passing just before
\* the next read
Tick ==
    /\ ticks < MaxTicks
    /\ \E r \in Reqs : ReadsClock(req[r])
    /\ \E d \in {1, DEFAULT_TTL_MS} : now' = now + d
    /\ ticks' = ticks + 1
    /\ UNCHANGED <<dbvars, req, hist>>

\* ---- arrival: headers present, vendor resolved, signature verified --------
\* request slots are taken in order
Arrives(r) == req[r].pc = "idle" /\ \A p \in Reqs : p < r => req[p].pc # "idle"

DeductArrive(r) ==
    /\ Arrives(r)
    /\ \E k \in Keys, u \in Users, f \in ClientRefs, a \in Amounts :
        Set(r, [IdleReq EXCEPT !.pc = "claim_insert", !.ep = "deduct", !.key = k,
                               !.userId = u, !.ref = f, !.amount = a])
    /\ UNCHANGED <<dbvars, now, ticks, hist>>

TopupArrive(r) ==
    /\ Arrives(r)
    /\ \E k \in Keys, u \in Users, a \in Amounts :
        Set(r, [IdleReq EXCEPT !.pc = "claim_insert", !.ep = "topup", !.key = k,
                               !.userId = u, !.amount = a])
    /\ UNCHANGED <<dbvars, now, ticks, hist>>

ResetArrive(r) ==
    /\ Arrives(r)
    /\ \E u \in Users :
        Set(r, [IdleReq EXCEPT !.pc = "reset_fetch", !.ep = "reset", !.userId = u])
    /\ UNCHANGED <<dbvars, now, ticks, hist>>

\* ---- POST /api/gateway/deduct from its first line ----------------------------
\* what a client puts into the signature headers of a request with this body
Forgeries == {"valid", "wrong_secret", "stale", "tampered", "unsigned"}

OtherBody(raw) == [raw EXCEPT !.amount = raw.amount + 1]

SignedHeaders(forge, raw, clock) ==
    IF forge = "valid"
        THEN [legacy |-> <<>>, sig |-> computeSig("s_T", raw, clock).header, bodySha |-> hashBody(raw)]
    ELSE IF forge = "wrong_secret"
        THEN [legacy |-> <<>>, sig |-> computeSig("s_bad", raw, clock).header, bodySha |-> hashBody(raw)]
    ELSE IF forge = "stale"
        THEN [legacy |-> <<>>, sig |-> computeSig("s_T", raw, clock - ALLOWED_SKEW_SECONDS - 1).header,
              bodySha |-> hashBody(raw)]
    ELSE IF forge = "tampered"
        THEN [legacy |-> <<>>, sig |-> computeSig("s_T", OtherBody(raw), clock).header,
              bodySha |-> hashBody(OtherBody(raw))]
    ELSE [legacy |-> <<>>, sig |-> <<>>, bodySha |-> hashBody(raw)]

\* mutant: the Idempotency-Key header is checked before the vendor key header
ReceivedBody_KeyFirst(k, vk, forge, u, f, a, json, clock) ==
    LET q == [IdleReq EXCEPT !.ep = "deduct", !.key = k, !.userId = u, !.ref = f,
                             !.amount = a, !.json = json, !.vendorKey = trim(vk)]
    IN IF k = NoKey THEN Respond(q, "done", 400, ErrBody("missing_idempotency_key"))
       ELSE IF trim(vk) = "" THEN Respond(q, "done", 401, InvalidSignature("missing_vendor_key"))
       ELSE [q EXCEPT !.pc = "vendor", !.hdr = SignedHeaders(forge, RawBody(q), clock)]

\* the two header checks that precede the try block
ReceivedBody(k, vk, forge, u, f, a, json, clock) ==
    LET q == [IdleReq EXCEPT !.ep = "deduct", !.key = k, !.userId = u, !.ref = f,
                             !.amount = a, !.json = json, !.vendorKey = trim(vk)]
    IN IF trim(vk) = "" THEN Respond(q, "done", 401, InvalidSignature("missing_vendor_key"))
       ELSE IF k = NoKey THEN Respond(q, "done", 400, ErrBody("missing_idempotency_key"))
       ELSE [q EXCEPT !.pc = "vendor", !.hdr = SignedHeaders(forge, RawBody(q), clock)]

Received(k, vk, forge, u, f, a, clock) == ReceivedBody(k, vk, forge, u, f, a, TRUE, clock)

\* a well-formed request with any body, or one request with one header at fault
DeductReceive(r) ==
    /\ Arrives(r)
    /\ \/ \E k \in Keys, u \in Users, f \in ClientRefs, a \in Amounts :
            Set(r, Received(k, "vk_demo_key", "valid", u, f, a, UnixSeconds(now)))
       \/ \E vk \in {" ", "vk_none", "vk_acme_key", "demo", "abc"} :
            Set(r, Received("k1", vk, "valid", "u1", Ref("ref", 1), 1, UnixSeconds(now)))
       \/ \E forge \in Forgeries :
            Set(r, Received("k1", "vk_demo_key", forge, "u1", Ref("ref", 1), 1, UnixSeconds(now)))
       \/ Set(r, Received(NoKey, "vk_demo_key", "valid", "u1", Ref("ref", 1), 1, UnixSeconds(now)))
    /\ UNCHANGED <<dbvars, now, ticks, hist>>

\* mutant: the resolved vendor is not compared with the configured tenant
VendorLookup_NoScope(r) ==
    LET q == req[r]
        found == getVendorByKey(q.vendorKey)
    IN
    /\ q.pc = "vendor"
    /\ IF found.error = "validation_error"
         THEN Set(r, Respond(q, "done", 400, ErrBody("validation_error")))
       ELSE IF found.vendor = NoVendor
         THEN Set(r, Respond(q, "done", 401, InvalidSignature("unknown_vendor")))
       ELSE Set(r, [q EXCEPT !.pc = "verify"])
    /\ UNCHANGED <<dbvars, now, ticks, hist>>

\* dal.getVendorByKey (vendor_not_found is caught and read as no vendor, any other
\* Flow402Error reaches the catch block with claimed = false) and the vendor.id check
VendorLookup(r) ==
    LET q == req[r]
        found == getVendorByKey(q.vendorKey)
        vendor == found.vendor
    IN
    /\ q.pc = "vendor"
    /\ IF found.error = "validation_error"
         THEN Set(r, Respond(q, "done", 400, ErrBody("validation_error")))
       ELSE IF vendor = NoVendor
         THEN Set(r, Respond(q, "done", 401, InvalidSignature("unknown_vendor")))
       ELSE IF vendor.id # tenantId
         THEN Set(r, Respond(q, "done", 401, InvalidSignature("vendor_mismatch")))
       ELSE Set(r, [q EXCEPT !.pc = "verify"])
    /\ UNCHANGED <<dbvars, now, ticks, hist>>

\* the tenants query fails: Flow402Error vendor_lookup_failed, answered by the
\* catch block with claimed = false
VendorLookupFails(r) ==
    LET q == req[r] IN
    /\ q.pc = "vendor"
    /\ Set(r, Respond(q, "done", 400, ErrBody("vendor_lookup_failed")))
    /\ UNCHANGED <<dbvars, now, ticks, hist>>

\* verify(req, vendor.signing_secret)
Verify(r) ==
    LET q == req[r]
        verification == verify(q.hdr, RawBody(q), getVendorByKey(q.vendorKey).vendor.signing_secret,
                               UnixSeconds(now))
    IN
    /\ q.pc = "verify"
    /\ IF verification.ok
        THEN Set(r, [q EXCEPT !.pc = "claim_insert"])
        ELSE Set(r, Respond(q, "done", 401, InvalidSignature(verification.reason)))
    /\ UNCHANGED <<dbvars, now, ticks, hist>>

\* ---- IdempotencyStore.claim ------------------------------------------------
AfterClaim(ep) == IF ep = "deduct" THEN "ensure" ELSE "rpc_select"

\* claimed = true; Body.parse(JSON.parse(...)) runs in the same turn: an invalid body
\* is answered 400 invalid_request through respondWithIdempotency
Parsed(q) ==
    LET c == [q EXCEPT !.claim = "claimed", !.claimed = TRUE, !.claimedAt = now] IN
    IF ParseBody(RawBody(q)) = "ok"
        THEN [c EXCEPT !.pc = AfterClaim(q.ep)]
        ELSE Respond(c, "persist", 400, ErrBody("invalid_request"))

\* mutant: an upsert instead of an insert
InsertAlways(tbl, k) == TRUE

\* insert into idempotency_keys: succeeds iff the primary key is free
InsertSucceeds(tbl, k) == k \notin DOMAIN tbl

ClaimInsert(r) ==
    LET q == req[r] IN
    /\ q.pc = "claim_insert"
    /\ IF InsertSucceeds(idempotency_keys, q.key)
        THEN /\ idempotency_keys' =
                    PutKey(idempotency_keys, q.key,
                           IdemRow(METHOD, routePath(q.ep), hashBody(RawBody(q)), now))
             /\ Set(r, Parsed(q))
        ELSE /\ Set(r, [q EXCEPT !.pc = "claim_read"])
             /\ UNCHANGED idempotency_keys
    /\ UNCHANGED <<credits, tx_ledger, vendor_users, now, ticks, hist>>

\* mutant: meeting a row renews its reservation
ClaimRead_Refreshes(r) ==
    LET q == req[r] IN
    /\ q.pc = "claim_read" /\ q.key \in DOMAIN idempotency_keys
    /\ idempotency_keys' = [idempotency_keys EXCEPT ![q.key].created_at = now]
    /\ Set(r, Respond([q EXCEPT !.claim = "locked"], "done", 409,
                      ErrBody("request_in_progress")))
    /\ UNCHANGED <<credits, tx_ledger, vendor_users, now, ticks, hist>>

ClaimRead(r) ==
    LET q == req[r]
        out == Decide(idempotency_keys[q.key], METHOD, routePath(q.ep), hashBody(RawBody(q)))
    IN
    /\ q.pc = "claim_read"
    /\ IF q.key \notin DOMAIN idempotency_keys
         THEN Set(r, [q EXCEPT !.pc = "claim_insert"])
       ELSE IF isExpired(idempotency_keys[q.key], DEFAULT_TTL_MS, now)
         THEN Set(r, [q EXCEPT !.pc = "claim_evict"])
       ELSE IF out = "conflict"
         THEN Set(r, Respond([q EXCEPT !.claim = out], "done", 409,
                             ErrBody("idempotency_conflict")))
       ELSE IF out = "replay"
         THEN Set(r, Respond([q EXCEPT !.claim = out], "done",
                             idempotency_keys[q.key].response_status,
                             idempotency_keys[q.key].response_body))
       ELSE Set(r, Respond([q EXCEPT !.claim = out], "done", 409,
                           ErrBody("request_in_progress")))
    /\ UNCHANGED <<dbvars, now, ticks, hist>>

\* the insert fails with another error than 23505, or the select of the row fails:
\* Flow402Error idempotency_store_failed (status 500), answered with claimed = false
ClaimFails(r) ==
    LET q == req[r] IN
    /\ q.pc \in {"claim_insert", "claim_read"}
    /\ Set(r, Respond(q, "done", 500, ErrBody("idempotency_store_failed")))
    /\ UNCHANGED <<dbvars, now, ticks, hist>>

ClaimEvict(r) ==
    LET q == req[r] IN
    /\ q.pc = "claim_evict"
    /\ idempotency_keys' = DelKey(idempotency_keys, q.key)
    /\ Set(r, [q EXCEPT !.pc = "claim_insert", !.evictions = q.evictions + 1])
    /\ UNCHANGED <<credits, tx_ledger, vendor_users, now, ticks, hist>>

\* ---- respondWithIdempotency / release --------------------------------------
Persist(r) ==
    LET q == req[r] IN
    /\ q.pc = "persist"
    /\ idempotency_keys' = persistResponse(idempotency_keys, q.key, q.status, q.body)
    /\ Set(r, [q EXCEPT !.pc = "done"])
    /\ UNCHANGED <<credits, tx_ledger, vendor_users, now, ticks, hist>>

\* mutant: a failed persistResponse gives the key up
PersistFails_DropsRow(r) ==
    LET q == req[r] IN
    /\ q.pc = "persist"
    /\ idempotency_keys' = release(idempotency_keys, q.key)
    /\ Set(r, [q EXCEPT !.pc = "done"])
    /\ UNCHANGED <<credits, tx_ledger, vendor_users, now, ticks, hist>>

\* persistResponse throws; the error is logged and the response still sent
PersistFails(r) ==
    LET q == req[r] IN
    /\ q.pc = "persist"
    /\ Set(r, [q EXCEPT !.pc = "done"])
    /\ UNCHANGED <<dbvars, now, ticks, hist>>

Release(r) ==
    LET q == req[r] IN
    /\ q.pc = "release"
    /\ idempotency_keys' = release(idempotency_keys, q.key)
    /\ Set(r, [q EXCEPT !.pc = "done", !.released = TRUE])
    /\ UNCHANGED <<credits, tx_ledger, vendor_users, now, ticks, hist>>

\* ---- POST /api/gateway/deduct ----------------------------------------------
\* dal.ensureVendorUser: the vendor_users row exists afterwards
Ensure(r) ==
    LET q == req[r] IN
    /\ q.pc = "ensure" /\ q.ep = "deduct"
    /\ vendor_users' = IF VendorUserRows(vendor_users, tenantId, q.userId) = {}
                        THEN InsertVendorUser(vendor_users, tenantId, q.userId)
                        ELSE vendor_users
    /\ Set(r, [q EXCEPT !.pc = "get_balance"])
    /\ UNCHANGED <<idempotency_keys, credits, tx_ledger, now, ticks, hist>>

\* a store call throws something that is no Flow402Error, ZodError or SyntaxError
UnknownError(r) ==
    LET q == req[r] IN
    /\ q.pc = "ensure" /\ q.ep = "deduct"
    /\ Set(r, Respond(q, "release", 500, ErrBody("unknown_error")))
    /\ UNCHANGED <<dbvars, now, ticks, hist>>

\* dal.getBalance and the pre-check balance.credits < amount_credits
GetBalance(r) ==
    LET q == req[r]
        b == BalanceOf(credits, tenantId, q.userId)
    IN
    /\ q.pc = "get_balance"
    /\ IF b < q.amount
        THEN Set(r, Respond([q EXCEPT !.balance = b], "persist", 402,
                            Envelope402(q.amount, q.userId)))
        ELSE Set(r, [q EXCEPT !.pc = "rpc_select", !.balance = b])
    /\ UNCHANGED <<dbvars, now, ticks, hist>>

\* the credits query fails: Flow402Error balance_lookup_failed with the default
\* status, answered through respondWithIdempotency
GetBalanceFails(r) ==
    LET q == req[r] IN
    /\ q.pc = "get_balance"
    /\ Set(r, Respond(q, "persist", 400, ErrBody("balance_lookup_failed")))
    /\ UNCHANGED <<dbvars, now, ticks, hist>>

\* the RPC's leading select on tx_ledger; the top-up builds its ref from Date.now()
RpcSelect(r) ==
    LET q == req[r]
        f == IF q.ep = "deduct" THEN q.ref ELSE Ref("dashboard_topup", now)
    IN
    /\ q.pc = "rpc_select"
    /\ Set(r, [q EXCEPT !.pc = "rpc_write", !.rpcRef = f,
                        !.found = ExistingKind(tx_ledger, tenantId, f)])
    /\ UNCHANGED <<dbvars, now, ticks, hist>>

\* callDeductBalanceRpc: the error message decides between insufficient_funds
\* (402 envelope) and mutation_failed; Flow402Error's default status is 400
\* mutant: the insufficient_funds message is not looked for
DeductResponse_NoFundsCheck(q, res) ==
    IF res.ok THEN Respond(q, "persist", 200, OkBalance(res.value))
    ELSE Respond(q, "persist", 400, ErrBody("mutation_failed"))

DeductResponse(q, res) ==
    IF res.ok THEN Respond(q, "persist", 200, OkBalance(res.value))
    ELSE IF res.err = "P0001"
        THEN Respond(q, "persist", 402, Envelope402(q.amount, q.userId))
    ELSE Respond(q, "persist", 400, ErrBody("mutation_failed"))

DeductRpcWrite(r) ==
    LET q == req[r]
        res == DedWrite(credits, tx_ledger, tenantId, q.userId, q.amount, q.rpcRef, q.found)
    IN
    /\ q.pc = "rpc_write" /\ q.ep = "deduct"
    /\ credits' = res.credits
    /\ tx_ledger' = res.ledger
    /\ Set(r, DeductResponse([q EXCEPT !.wrote = (res.ledger # tx_ledger)], res))
    /\ UNCHANGED <<idempotency_keys, vendor_users, now, ticks, hist>>

\* the RPC call fails before it has run (the transaction wrote nothing):
\* Flow402Error mutation_failed with the default status
DeductRpcFails(r) ==
    LET q == req[r] IN
    /\ q.pc = "rpc_select" /\ q.ep = "deduct"
    /\ Set(r, Respond(q, "persist", 400, ErrBody("mutation_failed")))
    /\ UNCHANGED <<dbvars, now, ticks, hist>>

\* ---- POST /api/topup/mock --------------------------------------------------
\* if (error) throw error: the catch-all releases the key and answers 500
\* mutant: the key is released although the credit has committed
TopupResponse_AlwaysReleases(q, res) ==
    IF res.ok THEN Respond(q, "release", 200, OkPlain)
    ELSE Respond(q, "release", 500, ErrBody("topup_failed"))

TopupResponse(q, res) ==
    IF res.ok THEN Respond(q, "persist", 200, OkPlain)
    ELSE Respond(q, "release", 500, ErrBody("topup_failed"))

TopupRpcWrite(r) ==
    LET q == req[r]
        res == IncWrite(credits, tx_ledger, tenantId, q.userId, q.amount, "topup",
                        q.rpcRef, q.found)
    IN
    /\ q.pc = "rpc_write" /\ q.ep = "topup"
    /\ credits' = res.credits
    /\ tx_ledger' = res.ledger
    /\ Set(r, TopupResponse([q EXCEPT !.wrote = (res.ledger # tx_ledger)], res))
    /\ UNCHANGED <<idempotency_keys, vendor_users, now, ticks, hist>>

\* the RPC call fails before it has run (the transaction wrote nothing)
TopupRpcFails(r) ==
    LET q == req[r] IN
    /\ q.pc = "rpc_select" /\ q.ep = "topup"
    /\ Set(r, Respond(q, "release", 500, ErrBody("topup_failed")))
    /\ UNCHANGED <<dbvars, now, ticks, hist>>

\* ---- POST /api/topup/reset -------------------------------------------------
\* select balance_cents from credits ... maybeSingle()
ResetFetch(r) ==
    LET q == req[r] IN
    /\ q.pc = "reset_fetch"
    /\ Set(r, [q EXCEPT !.pc = "reset_zero",
                        !.found = IF TU(tenantId, q.userId) \in DOMAIN credits
                                  THEN "row" ELSE "none",
                        !.balance = BalanceOf(credits, tenantId, q.userId)])
    /\ UNCHANGED <<dbvars, now, ticks, hist>>

\* upsert {balance_cents: 0} when no row was read, else update ... set balance_cents = 0
ResetZero(r) ==
    LET q == req[r] IN
    /\ q.pc = "reset_zero"
    /\ credits' = IF q.found = "none" \/ TU(tenantId, q.userId) \in DOMAIN credits
                  THEN SetBalance(credits, tenantId, q.userId, 0)
                  ELSE credits
    /\ IF q.balance > 0
        THEN Set(r, [q EXCEPT !.pc = "reset_ledger"])
        ELSE Set(r, Respond(q, "done", 200, OkBalance(q.balance)))
    /\ UNCHANGED <<idempotency_keys, tx_ledger, vendor_users, now, ticks, hist>>

\* insert into tx_ledger (manual_reset, previous balance, manual_reset_<Date.now()>)
ResetLedger(r) ==
    LET q == req[r]
        row == LedgerRow(tenantId, q.userId, "manual_reset", q.balance,
                         Ref("manual_reset", now))
    IN
    /\ q.pc = "reset_ledger"
    /\ IF tx_ledger_tenant_ref_idx(tx_ledger, row)
        THEN /\ tx_ledger' = Append(tx_ledger, row)
             /\ Set(r, Respond([q EXCEPT !.wrote = TRUE, !.rpcRef = row.ref], "done", 200,
                               OkBalance(q.balance)))
        ELSE /\ UNCHANGED tx_ledger
             /\ Set(r, Respond(q, "done", 500, ErrBody("ledger_insert_failed")))
    /\ UNCHANGED <<idempotency_keys, credits, vendor_users, now, ticks, hist>>

\* ------------------------------------------------------------------------
Next ==
    \/ Tick
    \/ \E r \in Reqs : DeductArrive(r)
    \/ \E r \in Reqs : TopupArrive(r)
    \/ \E r \in Reqs : ResetArrive(r)
    \/ \E r \in Reqs : ClaimInsert(r)
    \/ \E r \in Reqs : ClaimRead(r)
    \/ \E r \in Reqs : ClaimEvict(r)
    \/ \E r \in Reqs : Ensure(r)
    \/ \E r \in Reqs : UnknownError(r)
    \/ \E r \in Reqs : GetBalance(r)
    \/ \E r \in Reqs : RpcSelect(r)
    \/ \E r \in Reqs : DeductRpcWrite(r)
    \/ \E r \in Reqs : TopupRpcWrite(r)
    \/ \E r \in Reqs : Persist(r)
    \/ \E r \in Reqs : PersistFails(r)
    \/ \E r \in Reqs : Release(r)
    \/ \E r \in Reqs : ResetFetch(r)
    \/ \E r \in Reqs : ResetZero(r)
    \/ \E r \in Reqs : ResetLedger(r)

Spec == Init /\ [][Next]_vars

\* ------------------------------------------------------------------------
\* Two concurrent deduct requests on one user, with distinct keys and refs, no
\* other traffic and no store failure.
\* ------------------------------------------------------------------------
InitPair ==
    /\ idempotency_keys = <<>>
    /\ \E b \in 0..MaxInitBalance :
        /\ credits = IF b = 0 THEN <<>> ELSE SetBalance(<<>>, tenantId, "u1", b)
        /\ tx_ledger = IF b = 0 THEN <<>>
                       ELSE <<LedgerRow(tenantId, "u1", "topup", b, SeedRef)>>
    /\ vendor_users = {}
    /\ now = 0
    /\ ticks = 0
    /\ \E a1, a2 \in Amounts :
        req = [r \in Reqs |->
                IF r = 1 THEN [IdleReq EXCEPT !.pc = "claim_insert", !.ep = "deduct",
                                              !.key = "k1", !.userId = "u1",
                                              !.ref = Ref("ref", 1), !.amount = a1]
                ELSE IF r = 2 THEN [IdleReq EXCEPT !.pc = "claim_insert", !.ep = "deduct",
                                                   !.key = "k2", !.userId = "u1",
                                                   !.ref = Ref("ref", 2), !.amount = a2]
                ELSE IdleReq]
    /\ hist = <<>>

NextPair ==
    \/ \E r \in Reqs : ClaimInsert(r)
    \/ \E r \in Reqs : Ensure(r)
    \/ \E r \in Reqs : GetBalance(r)
    \/ \E r \in Reqs : RpcSelect(r)
    \/ \E r \in Reqs : DeductRpcWrite(r)
    \/ \E r \in Reqs : Persist(r)

SpecPair == InitPair /\ [][NextPair]_vars

\* ------------------------------------------------------------------------
\* Two concurrent requests, deducts or top-ups, under distinct keys: the ref of a
\* deduct is any string the client sends, so it may equal the ref of the other
\* request, of a journal entry that exists already, or of a concurrent top-up.
\* ------------------------------------------------------------------------
SharedRefs == {Ref("ref", 1), SeedRef, Ref("dashboard_topup", 0)}

StartReq(ep, k, u, f, a) ==
    [IdleReq EXCEPT !.pc = "claim_insert", !.ep = ep, !.key = k, !.userId = u,
                    !.ref = IF ep = "deduct" THEN f ELSE NoRef, !.amount = a]

InitShared ==
    /\ idempotency_keys = <<>>
    /\ \E b \in 0..MaxInitBalance :
        /\ credits = IF b = 0 THEN <<>> ELSE SetBalance(<<>>, tenantId, "u1", b)
        /\ tx_ledger = IF b = 0 THEN <<>>
                       ELSE <<LedgerRow(tenantId, "u1", "topup", b, SeedRef)>>
    /\ vendor_users = {}
    /\ now = 0
    /\ ticks = 0
    /\ \E e1, e2 \in {"deduct", "topup"}, u1, u2 \in Users, f1, f2 \in SharedRefs,
          a1, a2 \in Amounts :
        req = [r \in Reqs |->
                IF r = 1 THEN StartReq(e1, "k1", u1, f1, a1)
                ELSE IF r = 2 THEN StartReq(e2, "k2", u2, f2, a2)
                ELSE IdleReq]
    /\ hist = <<>>

NextShared ==
    \/ \E r \in Reqs : ClaimInsert(r)
    \/ \E r \in Reqs : Ensure(r)
    \/ \E r \in Reqs : GetBalance(r)
    \/ \E r \in Reqs : RpcSelect(r)
    \/ \E r \in Reqs : DeductRpcWrite(r)
    \/ \E r \in Reqs : TopupRpcWrite(r)
    \/ \E r \in Reqs : Persist(r)
    \/ \E r \in Reqs : Release(r)

SpecShared == InitShared /\ [][NextShared]_vars

\* ------------------------------------------------------------------------
\* One client that sends its requests one after the other (a request and its
\* retries): the next request arrives when the previous one has been answered.
\* Deduct requests run from the first line of the handler.
\* ------------------------------------------------------------------------
Quiet == \A r \in Reqs : req[r].pc \in {"idle", "done"}

NextSeq ==
    \/ Tick
    \/ Quiet /\ \E r \in Reqs : DeductReceive(r)
    \/ Quiet /\ \E r \in Reqs : TopupArrive(r)
    \/ \E r \in Reqs : VendorLookup(r)
    \/ \E r \in Reqs : VendorLookupFails(r)
    \/ \E r \in Reqs : Verify(r)
    \/ \E r \in Reqs : ClaimInsert(r)
    \/ \E r \in Reqs : ClaimRead(r)
    \/ \E r \in Reqs : ClaimEvict(r)
    \/ \E r \in Reqs : Ensure(r)
    \/ \E r \in Reqs : UnknownError(r)
    \/ \E r \in Reqs : GetBalance(r)
    \/ \E r \in Reqs : RpcSelect(r)
    \/ \E r \in Reqs : DeductRpcWrite(r)
    \/ \E r \in Reqs : TopupRpcWrite(r)
    \/ \E r \in Reqs : Persist(r)
    \/ \E r \in Reqs : PersistFails(r)
    \/ \E r \in Reqs : Release(r)

SpecSeq == Init /\ [][NextSeq]_vars

\* ------------------------------------------------------------------------
\* The two RPCs called one after the other by a single client: hist records each
\* call with the balance before and after it.
\* ------------------------------------------------------------------------
Call(op, t, u, a, kind, ref, res) ==
    [op |-> op, t |-> t, u |-> u, a |-> a, kind |-> kind, ref |-> ref,
     fresh |-> (ExistingKind(tx_ledger, t, ref) = "none"),
     pre |-> BalanceOf(credits, t, u),
     ok |-> res.ok, err |-> res.err, value |-> res.value,
     post |-> BalanceOf(res.credits, t, u),
     len |-> Len(res.ledger),
     kinds |-> {res.ledger[i].kind : i \in RefRows(res.ledger, t, ref)},
     nrows |-> Cardinality(RefRows(res.ledger, t, ref))]

CallDeduct ==
    /\ Len(hist) < MaxCalls
    /\ \E t \in Tenants, u \in Users, a \in 0..MaxAmount, f \in ClientRefs :
        LET res == deduct_balance(credits, tx_ledger, t, u, a, f) IN
        /\ credits' = res.credits
        /\ tx_ledger' = res.ledger
        /\ hist' = Append(hist, Call("deduct", t, u, a, "deduct", f, res))
    /\ UNCHANGED <<idempotency_keys, vendor_users, now, ticks, req>>

CallIncrement ==
    /\ Len(hist) < MaxCalls
    /\ \E t \in Tenants, u \in Users, a \in 0..MaxAmount, f \in ClientRefs,
          kind \in {"topup", "adjustment"} :
        LET res == increment_balance(credits, tx_ledger, t, u, a, kind, f) IN
        /\ credits' = res.credits
        /\ tx_ledger' = res.ledger
        /\ hist' = Append(hist, Call("credit", t, u, a, kind, f, res))
    /\ UNCHANGED <<idempotency_keys, vendor_users, now, ticks, req>>

NextLedger == CallDeduct \/ CallIncrement

SpecLedger == Init /\ [][NextLedger]_vars

\* ------------------------------------------------------------------------
\* verify applied to requests that a client signed with computeSig: hist holds the
\* last call, with the secret s, the signed body, the signing time t, the body that
\* was sent and the verifier's clock.
\* ------------------------------------------------------------------------
Secrets == {"s_T", "s_T2"}
Bodies == {"{a}", "{b}"}
SignTimes == 0..MaxSignTime
Skews == {0 - ALLOWED_SKEW_SECONDS - 1, 0 - ALLOWED_SKEW_SECONDS, 0,
          ALLOWED_SKEW_SECONDS, ALLOWED_SKEW_SECONDS + 1}

VerifyCall(secret, body, t, sent, clock) ==
    [secret |-> secret, body |-> body, t |-> t, sent |-> sent, clock |-> clock,
     result |-> verify([legacy |-> <<>>, sig |-> computeSig(secret, body, t).header,
                        bodySha |-> hashBody(body)],
                       sent, secret, clock)]

\* the signed request arrives as it was signed
VerifySigned ==
    /\ \E secret \in Secrets, body \in Bodies, t \in SignTimes, skew \in Skews :
        hist' = <<VerifyCall(secret, body, t, body, t + skew)>>
    /\ UNCHANGED <<dbvars, now, ticks, req>>

\* the headers of the signed request arrive with another body
VerifyAltered ==
    /\ \E secret \in Secrets, body \in Bodies, t \in SignTimes, skew \in Skews :
        \E sent \in Bodies \ {body} :
            hist' = <<VerifyCall(secret, body, t, sent, t + skew)>>
    /\ UNCHANGED <<dbvars, now, ticks, req>>

NextHmac == VerifySigned \/ VerifyAltered

SpecHmac == Init /\ [][NextHmac]_vars

\* ------------------------------------------------------------------------
\* getVendorByKey called with any credential on any tenants table of two rows;
\* slug and api_key are unique per column, and a value of one column may equal a
\* value of another column or the id of the other row. hist holds the call.
\* ------------------------------------------------------------------------
SlugPool == {"demo", "abc", "vk_demo_key", otherTenantId}
ApiKeyPool == {"vk_demo_key", "vk_acme_key", tenantId}

TenantTables ==
    {{[id |-> tenantId, slug |-> x[1], api_key |-> x[3], signing_secret |-> "s_T"],
      [id |-> otherTenantId, slug |-> x[2], api_key |-> x[4], signing_secret |-> "s_T2"]} :
        x \in {y \in SlugPool \X SlugPool \X ApiKeyPool \X ApiKeyPool :
                  y[1] # y[2] /\ y[3] # y[4]}}

Credentials ==
    {x[1] \o x[2] \o x[3] : x \in
        {"", " "} \X {"demo", "abc", "vk_demo_key", "vk_acme_key", "missing-key",
                      tenantId, otherTenantId} \X {"", " "}}

Resolve ==
    /\ hist = <<>>
    /\ \E tbl \in TenantTables, c \in Credentials :
        hist' = <<[tbl |-> tbl, credential |-> c, result |-> getVendorByKeyIn(tbl, c)]>>
    /\ UNCHANGED <<dbvars, now, ticks, req>>

NextResolve == Resolve

SpecResolve == Init /\ [][NextResolve]_vars

\* ------------------------------------------------------------------------
\* The deduct handler from its first line, with any combination of faults in one
\* request (vendor key, idempotency key, signature, body) and with failing store
\* calls; requests come one after the other under one key, and the clock stands.
\* ------------------------------------------------------------------------
DeductReceiveAny(r) ==
    /\ Arrives(r)
    /\ \E vk \in {"", "vk_demo_key", "vk_acme_key", "vk_none"}, k \in {"k1", NoKey},
          forge \in Forgeries, a \in 0..MaxAmount, json \in BOOLEAN :
        Set(r, ReceivedBody(k, vk, forge, "u1", Ref("ref", 1), a, json, UnixSeconds(now)))
    /\ UNCHANGED <<dbvars, now, ticks, hist>>

NextPipeline ==
    \/ Quiet /\ \E r \in Reqs : DeductReceiveAny(r)
    \/ \E r \in Reqs : VendorLookup(r)
    \/ \E r \in Reqs : VendorLookupFails(r)
    \/ \E r \in Reqs : Verify(r)
    \/ \E r \in Reqs : ClaimInsert(r)
    \/ \E r \in Reqs : ClaimRead(r)
    \/ \E r \in Reqs : ClaimFails(r)
    \/ \E r \in Reqs : Ensure(r)
    \/ \E r \in Reqs : UnknownError(r)
    \/ \E r \in Reqs : GetBalance(r)
    \/ \E r \in Reqs : GetBalanceFails(r)
    \/ \E r \in Reqs : RpcSelect(r)
    \/ \E r \in Reqs : DeductRpcFails(r)
    \/ \E r \in Reqs : DeductRpcWrite(r)
    \/ \E r \in Reqs : Persist(r)
    \/ \E r \in Reqs : PersistFails(r)
    \/ \E r \in Reqs : Release(r)

SpecPipeline == Init /\ [][NextPipeline]_vars

\* ------------------------------------------------------------------------
\* verify called on any combination of the three headers: each signature header
\* is absent or holds a t= part and a v1= part that are missing, well formed or
\* malformed. hist holds the call.
\* ------------------------------------------------------------------------
\* the t= part of a header seen by a verifier whose clock shows clock: none, the
\* clock's second, a second outside the window, 0, digits followed by letters
\* ("1000abc"), letters only
TimestampPart(kind, clock) ==
    CASE kind = "none" -> <<>>
      [] kind = "now" -> <<[key |-> "t", value |-> clock]>>
      [] kind = "old" -> <<[key |-> "t", value |-> clock - ALLOWED_SKEW_SECONDS - 1]>>
      [] kind = "zero" -> <<[key |-> "t", value |-> 0]>>
      [] kind = "digits+letters" -> <<[key |-> "t", value |-> clock, junk |-> TRUE]>>
      [] kind = "letters" -> <<[key |-> "t", value |-> NoNum, junk |-> TRUE]>>

\* the v1= part: none, the digest of (secret, body, t), the digest under another
\* secret, a value that is no hex string; ts is the second the signer put under
\* the digest
DigestPart(kind, tpart, body, clock) ==
    LET ts == IF tpart = <<>> \/ tpart[1].value = NoNum THEN clock ELSE tpart[1].value IN
    CASE kind = "none" -> <<>>
      [] kind = "signed" -> <<[key |-> "v1", value |-> hmacSha256("s_T", ts, body)]>>
      [] kind = "forged" -> <<[key |-> "v1", value |-> hmacSha256("s_T2", ts, body)]>>
      [] kind = "nohex" -> <<[key |-> "v1", value |-> <<"zz">>, junk |-> TRUE]>>

\* a signature header: absent, or its t= part followed by its v1= part
SignatureHeader(present, tkind, v1kind, body, clock) ==
    IF present
        THEN TimestampPart(tkind, clock)
                \o DigestPart(v1kind, TimestampPart(tkind, clock), body, clock)
        ELSE <<>>

VerifyAny ==
    /\ hist = <<>>
    /\ \E body \in Bodies, sent \in Bodies, clock \in {StartSec, StartSec + 1} :
        \E sigPresent \in BOOLEAN, legacyPresent \in BOOLEAN,
           t1, t2 \in {"none", "now", "old", "zero", "digits+letters", "letters"},
           d1, d2 \in {"none", "signed", "forged", "nohex"}, shaPresent \in BOOLEAN :
            LET headers == [sig |-> SignatureHeader(sigPresent, t1, d1, body, clock),
                            legacy |-> SignatureHeader(legacyPresent, t2, d2, body, clock),
                            bodySha |-> IF shaPresent THEN hashBody(body) ELSE <<>>]
            IN
            hist' = <<[headers |-> headers, body |-> sent, clock |-> clock,
                       result |-> verify(headers, sent, "s_T", clock)]>>
    /\ UNCHANGED <<dbvars, now, ticks, req>>

NextVerify == VerifyAny

SpecVerify == Init /\ [][NextVerify]_vars

\* ------------------------------------------------------------------------
\* Flow402Dal.incrementBalance called by a single client with any input of the
\* type BalanceMutationInput. hist records each call, the RPC it issued and
\* whether credits and tx_ledger are as before.
\* ------------------------------------------------------------------------
\* an optional property that is not set
undefined == "<undefined>"

\* the ref of a mutation as the key the journal stores
JournalRef(ref) == [p |-> ref, n |-> 0]

\* balanceMutationInputSchema
balanceMutationInputSchema(input) ==
    /\ uuidSchema(input.vendorId)
    /\ uuidSchema(input.vendorUserId)
    /\ input.kind \in {"debit", "credit", "fee"}
    /\ input.ref = undefined \/ Len(input.ref) >= 4

\* mutant: a debit or fee is let through without a ref
enforceBalanceGuards_NoRefCheck(input) ==
    IF input.kind = "credit" /\ input.deltaCredits <= 0 THEN "mutation_guard_failed"
    ELSE IF input.kind # "credit" /\ input.deltaCredits >= 0 THEN "mutation_guard_failed"
    ELSE ""

\* the code of the Flow402Error thrown, "" when none is
enforceBalanceGuards(input) ==
    IF input.kind = "credit" /\ input.deltaCredits <= 0 THEN "mutation_guard_failed"
    ELSE IF input.kind # "credit" /\ input.deltaCredits >= 0 THEN "mutation_guard_failed"
    ELSE IF input.kind # "credit" /\ (input.ref = undefined \/ input.ref = "")
        THEN "mutation_guard_failed"
    ELSE ""

Mutation(rpc, error, res) ==
    [rpc |-> rpc, error |-> error, credits |-> res.credits, ledger |-> res.ledger,
     value |-> res.value]

\* v_ref of increment_balance for a null p_ref: topup_ and six random bytes, taken
\* to differ from every ref of the journal
GeneratedRef(ledger) == [p |-> "topup_", n |-> Len(ledger) + 1]

\* p_ref: mutation.ref ?? null
callIncrementBalanceRpc(cr, ledger, mutation, amount) ==
    LET res == increment_balance(cr, ledger, mutation.vendorId, mutation.vendorUserId,
                                 amount, "topup",
                                 IF mutation.ref = undefined THEN GeneratedRef(ledger)
                                 ELSE JournalRef(mutation.ref))
    IN Mutation("increment_balance", IF res.ok THEN "" ELSE "mutation_failed", res)

callDeductBalanceRpc(cr, ledger, mutation, amount) ==
    LET res == IF mutation.ref = undefined THEN RpcErr(cr, ledger, "22004")
               ELSE deduct_balance(cr, ledger, mutation.vendorId, mutation.vendorUserId,
                                   amount, JournalRef(mutation.ref))
    IN Mutation("deduct_balance",
                IF res.ok THEN "" ELSE IF res.err = "P0001" THEN "insufficient_funds"
                ELSE "mutation_failed",
                res)

incrementBalance(cr, ledger, input) ==
    IF ~balanceMutationInputSchema(input)
        THEN Mutation("none", "validation_error", RpcErr(cr, ledger, ""))
    ELSE IF enforceBalanceGuards(input) # ""
        THEN Mutation("none", enforceBalanceGuards(input), RpcErr(cr, ledger, ""))
    ELSE IF input.kind = "credit"
        THEN callIncrementBalanceRpc(cr, ledger, input, Abs(input.deltaCredits))
    ELSE callDeductBalanceRpc(cr, ledger, input, Abs(input.deltaCredits))

userId == "9c0383a1-0887-4c0f-98ca-cb71ffc4e76c"

MutationInputs ==
    [vendorId : {tenantId, "demo"},
     vendorUserId : {userId, "u1"},
     deltaCredits : (0 - MaxAmount)..MaxAmount,
     kind : {"debit", "credit", "fee"},
     ref : {undefined, "", "ab", "ref_1", "ref_2"}]

Mutate ==
    /\ Len(hist) < MaxMutations
    /\ \E input \in MutationInputs :
        LET res == incrementBalance(credits, tx_ledger, input) IN
        /\ credits' = res.credits
        /\ tx_ledger' = res.ledger
        /\ hist' = Append(hist, [input |-> input, rpc |-> res.rpc, error |-> res.error,
                                 value |-> res.value,
                                 unchanged |-> (res.credits = credits /\ res.ledger = tx_ledger)])
    /\ UNCHANGED <<idempotency_keys, vendor_users, now, ticks, req>>

NextMutate == Mutate

SpecMutate == Init /\ [][NextMutate]_vars

\* ------------------------------------------------------------------------
\* Flow402Dal.ensureVendorUser called concurrently, without userEth as the routes
\* call it: every query of a call is one step. hist records each call that
\* returned or threw.
\* ------------------------------------------------------------------------
EnsureCall(pc, t, u) == [pc |-> pc, ep |-> "ensureVendorUser", vendorId |-> t, userId |-> u]

EnsureReturn(r, call, result, inserted) ==
    /\ Set(r, [call EXCEPT !.pc = "done"])
    /\ hist' = Append(hist, [r |-> r, vendorId |-> call.vendorId, userId |-> call.userId,
                             result |-> result, inserted |-> inserted,
                             retried |-> (call.pc = "retry")])

\* the two parseOrThrow(uuidSchema, ...) at the head of the method
EnsureStart(r) ==
    /\ req[r].pc = "idle"
    /\ \E t \in Tenants \cup {"demo"}, u \in {userId, "7d1f2c3a-5b6e-4a7f-8c9d-0e1f2a3b4c5d", "u1"} :
        IF uuidSchema(t) /\ uuidSchema(u)
            THEN /\ Set(r, EnsureCall("fetch", t, u))
                 /\ UNCHANGED hist
            ELSE EnsureReturn(r, EnsureCall("fetch", t, u), "validation_error", FALSE)
    /\ UNCHANGED <<dbvars, now, ticks>>

\* existing = await this.fetchVendorUser(...)
EnsureFetch(r) ==
    LET q == req[r] IN
    /\ q.pc = "fetch" /\ q.ep = "ensureVendorUser"
    /\ IF VendorUserRows(vendor_users, q.vendorId, q.userId) # {}
        THEN EnsureReturn(r, q, "row", FALSE)
        ELSE Set(r, [q EXCEPT !.pc = "insert"]) /\ UNCHANGED hist
    /\ UNCHANGED <<dbvars, now, ticks>>

\* insert(insertPayload).select("*").single(): the row, or error 23505
EnsureInsert(r) ==
    LET q == req[r] IN
    /\ q.pc = "insert" /\ q.ep = "ensureVendorUser"
    /\ IF vendor_users_pkey(vendor_users, q.vendorId, q.userId)
        THEN /\ vendor_users' = InsertVendorUser(vendor_users, q.vendorId, q.userId)
             /\ EnsureReturn(r, q, "row", TRUE)
        ELSE /\ Set(r, [q EXCEPT !.pc = "retry"])
             /\ UNCHANGED <<vendor_users, hist>>
    /\ UNCHANGED <<idempotency_keys, credits, tx_ledger, now, ticks>>

\* retry = await this.fetchVendorUser(...) after 23505
EnsureRetry(r) ==
    LET q == req[r] IN
    /\ q.pc = "retry" /\ q.ep = "ensureVendorUser"
    /\ IF VendorUserRows(vendor_users, q.vendorId, q.userId) # {}
        THEN EnsureReturn(r, q, "row", FALSE)
        ELSE EnsureReturn(r, q, "vendor_user_conflict", FALSE)
    /\ UNCHANGED <<dbvars, now, ticks>>

NextEnsure ==
    \/ \E r \in Reqs : EnsureStart(r)
    \/ \E r \in Reqs : EnsureFetch(r)
    \/ \E r \in Reqs : EnsureInsert(r)
    \/ \E r \in Reqs : EnsureRetry(r)

SpecEnsure == Init /\ [][NextEnsure]_vars

\* ------------------------------------------------------------------------
\* Two concurrent requests under distinct keys, as in SpecShared, with a store
\* whose calls may fail: every way a handler comes to release its key or to
\* persist its answer.
\* ------------------------------------------------------------------------
NextRelease ==
    \/ \E r \in Reqs : ClaimInsert(r)
    \/ \E r \in Reqs : Ensure(r)
    \/ \E r \in Reqs : UnknownError(r)
    \/ \E r \in Reqs : GetBalance(r)
    \/ \E r \in Reqs : GetBalanceFails(r)
    \/ \E r \in Reqs : RpcSelect(r)
    \/ \E r \in Reqs : DeductRpcFails(r)
    \/ \E r \in Reqs : DeductRpcWrite(r)
    \/ \E r \in Reqs : TopupRpcFails(r)
    \/ \E r \in Reqs : TopupRpcWrite(r)
    \/ \E r \in Reqs : Persist(r)
    \/ \E r \in Reqs : PersistFails(r)
    \/ \E r \in Reqs : Release(r)

SpecRelease == InitShared /\ [][NextRelease]_vars

\* ========================================================================
\* Properties
\* ========================================================================
Done(r) == req[r].pc = "done"
SameKey(r1, r2) == req[r1].key # NoKey /\ req[r1].key = req[r2].key
Payload(q) == <<METHOD, routePath(q.ep), hashBody(RawBody(q))>>
KeyReqs(k) == {r \in Reqs : req[r].key = k}
\* deletions of the key's row: by release, or by evicting it as expired
Evictions(k) == {<<r, i>> \in Reqs \X (1..MaxTicks + 1) : req[r].key = k /\ i <= req[r].evictions}
Releases(k) == {r \in KeyReqs(k) : req[r].released}

\* C1: balance_credits of every (tenant, user) is >= 0 in every reachable state.
C1_BalanceNonNegative == \A x \in DOMAIN credits : credits[x] >= 0

\* a deduct has committed and taken the balance down to exactly 0
C1_Witness ==
    \E r \in Reqs : /\ req[r].ep = "deduct" /\ req[r].wrote
                    /\ TU(tenantId, req[r].userId) \in DOMAIN credits
                    /\ credits[TU(tenantId, req[r].userId)] = 0

\* C2: a deduct journal entry of amount a for (t,u) appears in exactly the step
\* that found balance >= a and lowered it by a; the journal is append-only; and a
\* balance never goes down without a deduct entry, except when reset zeroes it.
NewDeducts(t, u) ==
    {i \in (Len(tx_ledger) + 1)..Len(tx_ledger') :
        /\ tx_ledger'[i].kind = "deduct"
        /\ tx_ledger'[i].tenant_id = t /\ tx_ledger'[i].user_id = u}

C2_DeductStep ==
    /\ Len(tx_ledger') >= Len(tx_ledger)
    /\ SubSeq(tx_ledger', 1, Len(tx_ledger)) = tx_ledger
    /\ \A t \in Tenants, u \in Users :
        /\ Cardinality(NewDeducts(t, u)) <= 1
        /\ \A i \in NewDeducts(t, u) :
            /\ TU(t, u) \in DOMAIN credits
            /\ credits[TU(t, u)] >= tx_ledger'[i].amount_cents
            /\ credits'[TU(t, u)] = credits[TU(t, u)] - tx_ledger'[i].amount_cents
        /\ (NewDeducts(t, u) = {} /\ BalanceOf(credits', t, u) < BalanceOf(credits, t, u))
            => /\ BalanceOf(credits', t, u) = 0
               /\ \E r \in Reqs : /\ req[r].pc = "reset_zero" /\ req'[r].pc # "reset_zero"
                                  /\ req[r].userId = u /\ t = tenantId

\* C2: every step of the system is such a step: journal entry and balance decrement
\* of a deduct are never committed one without the other.
C2_DeductAtomic == [][C2_DeductStep]_vars

\* a deduct request has committed its journal entry and answered 200
C2_Witness ==
    \E r \in Reqs, i \in 1..Len(tx_ledger) :
        /\ req[r].ep = "deduct" /\ req[r].wrote /\ req[r].status = 200
        /\ tx_ledger[i].kind = "deduct" /\ tx_ledger[i].ref = req[r].ref

\* C8: at most one journal entry per (tenant_id, ref).
C8_RefUnique ==
    \A i, j \in 1..Len(tx_ledger) :
        (tx_ledger[i].tenant_id = tx_ledger[j].tenant_id /\ tx_ledger[i].ref = tx_ledger[j].ref)
            => i = j

\* the unique index has turned a second insert of a ref away
C8_Witness ==
    \E r \in Reqs :
        /\ Done(r)
        /\ req[r].body \in {ErrBody("ledger_insert_failed"), ErrBody("mutation_failed"),
                            ErrBody("topup_failed")}
        /\ RefRows(tx_ledger, tenantId, IF req[r].ep = "reset" THEN Ref("manual_reset", now)
                                        ELSE req[r].rpcRef) # {}

\* ---- one Idempotency-Key ---------------------------------------------------
Effects(k) == {r \in KeyReqs(k) : req[r].wrote}
Claimed(k) == {r \in KeyReqs(k) : req[r].claim = "claimed"}

\* C3 as stated: all requests that carry one key commit at most one ledger effect.
C3_OneEffectPerKey == \A k \in Keys : Cardinality(Effects(k)) <= 1

\* C3: all requests that carry one key commit at most one ledger effect as long as
\* no row of the key was evicted as expired; a request answered by replay, lock or
\* conflict has not touched the ledger.
C3_OneEffectUnlessExpired ==
    /\ \A k \in Keys : Evictions(k) = {} => Cardinality(Effects(k)) <= 1
    /\ \A r \in Reqs : req[r].claim \in {"replay", "locked", "conflict"}
                        => ~req[r].wrote /\ ~req[r].claimed

\* one request of a key has committed its ledger effect and another one with the
\* same key has been turned away
C3_Witness ==
    \E r1, r2 \in Reqs :
        /\ SameKey(r1, r2) /\ r1 # r2
        /\ req[r1].wrote /\ Done(r2)
        /\ req[r2].claim \in {"replay", "locked", "conflict"}
        /\ Evictions(req[r1].key) = {}

\* C4 as stated: at most one Claimed outcome per key across all requests.
C4_AtMostOneClaimed == \A k \in Keys : Cardinality(Claimed(k)) <= 1

\* C4: per key, every Claimed outcome after the first follows a deletion of the
\* key's row (release, or eviction of an expired row); every other claim() is
\* answered Locked, Replay or Conflict.
C4_OneClaimedPerReservation ==
    /\ \A k \in Keys :
        Cardinality(Claimed(k)) <= 1 + Cardinality(Releases(k)) + Cardinality(Evictions(k))
    /\ \A r \in Reqs : (Done(r) /\ req[r].key # NoKey /\ req[r].claim # "claimed")
                        => req[r].claim \in {"locked", "replay", "conflict"}

\* two claims on one key have raced: one is Claimed and still in flight, the other
\* one has been answered Locked
C4_Witness ==
    \E r1, r2 \in Reqs :
        /\ SameKey(r1, r2) /\ r1 # r2
        /\ req[r1].claim = "claimed" /\ ~Done(r1)
        /\ req[r2].claim = "locked"

\* what a finished request observed
Observed(r) == <<req[r].status, req[r].body>>
SawConflict(r) == req[r].body = ErrBody("idempotency_conflict")
SawLocked(r) == req[r].status = 409 /\ req[r].body = ErrBody("request_in_progress")

\* C5 as stated: same key and payload: the same (status, body); a differing
\* payload: at least one idempotency_conflict.
C5_SameAnswer ==
    \A r1, r2 \in Reqs :
        (r1 # r2 /\ Done(r1) /\ Done(r2) /\ SameKey(r1, r2))
            => IF Payload(req[r1]) = Payload(req[r2])
               THEN Observed(r1) = Observed(r2)
               ELSE SawConflict(r1) \/ SawConflict(r2)

\* C5: of two finished requests that reached claim() with the same key, while no
\* row of the key was deleted (release, expiry eviction): with the same payload both
\* observe the same (status, body) unless one of them was answered Locked (409
\* request_in_progress); with differing payloads at least one observes
\* idempotency_conflict.
C5_SameAnswerOrLocked ==
    \A r1, r2 \in Reqs :
        (/\ r1 # r2 /\ Done(r1) /\ Done(r2) /\ SameKey(r1, r2)
         /\ req[r1].claim # "none" /\ req[r2].claim # "none"
         /\ Releases(req[r1].key) = {} /\ Evictions(req[r1].key) = {})
            => IF Payload(req[r1]) = Payload(req[r2])
               THEN Observed(r1) = Observed(r2) \/ SawLocked(r1) \/ SawLocked(r2)
               ELSE SawConflict(r1) \/ SawConflict(r2)

\* a completed request has been replayed to a second one with the same payload
C5_Witness ==
    \E r1, r2 \in Reqs :
        /\ r1 # r2 /\ Done(r1) /\ Done(r2) /\ SameKey(r1, r2)
        /\ Payload(req[r1]) = Payload(req[r2])
        /\ req[r1].claim = "claimed" /\ req[r2].claim = "replay"
        /\ Observed(r1) = Observed(r2)

\* C6 as stated: two requests with one key and different payloads never both succeed.
Succeeded(r) == Done(r) /\ req[r].status = 200
C6_NotBothSucceed ==
    \A r1, r2 \in Reqs :
        (r1 # r2 /\ SameKey(r1, r2) /\ Payload(req[r1]) # Payload(req[r2]))
            => ~(Succeeded(r1) /\ Succeeded(r2))

\* C6: two requests with one key and different payloads never both succeed, as long
\* as no row of the key was evicted as expired.
C6_NotBothSucceedUnlessExpired ==
    \A r1, r2 \in Reqs :
        (/\ r1 # r2 /\ SameKey(r1, r2) /\ Payload(req[r1]) # Payload(req[r2])
         /\ Evictions(req[r1].key) = {})
            => ~(Succeeded(r1) /\ Succeeded(r2))

\* one request succeeded and one with the same key but another payload met a
\* conflict on its row
C6_Witness ==
    \E r1, r2 \in Reqs :
        /\ r1 # r2 /\ SameKey(r1, r2) /\ Payload(req[r1]) # Payload(req[r2])
        /\ Succeeded(r1) /\ req[r1].wrote
        /\ Done(r2) /\ SawConflict(r2)

\* ---- two concurrent deducts -------------------------------------------------
InitialBalance ==
    IF Len(tx_ledger) > 0 /\ tx_ledger[1].ref = SeedRef THEN tx_ledger[1].amount_cents ELSE 0

RECURSIVE SumDeducts(_)
SumDeducts(n) ==
    IF n = 0 THEN 0
    ELSE SumDeducts(n - 1) + (IF tx_ledger[n].kind = "deduct" THEN tx_ledger[n].amount_cents ELSE 0)

Max(a, b) == IF a >= b THEN a ELSE b

Got200(r) == req[r].status = 200 /\ req[r].body.ok = "true"
Got402(r) == req[r].status = 402 /\ req[r].body = Envelope402(req[r].amount, req[r].userId)

\* C7: two concurrent deducts a, b on one user with a + b > balance >= max(a, b):
\* exactly one is answered 200 and the other one the 402 envelope, and the committed
\* deductions never add up to more than the initial balance.
C7_OneWinsOneGets402 ==
    /\ SumDeducts(Len(tx_ledger)) <= InitialBalance
    /\ (/\ Done(1) /\ Done(2)
        /\ req[1].amount + req[2].amount > InitialBalance
        /\ InitialBalance >= Max(req[1].amount, req[2].amount))
        => \/ Got200(1) /\ Got402(2) /\ SumDeducts(Len(tx_ledger)) = req[1].amount
           \/ Got200(2) /\ Got402(1) /\ SumDeducts(Len(tx_ledger)) = req[2].amount

\* both requests passed the balance pre-check and the loser was turned away by the
\* conditional update inside deduct_balance
C7_Witness ==
    /\ Done(1) /\ Done(2)
    /\ req[1].amount + req[2].amount > InitialBalance
    /\ InitialBalance >= Max(req[1].amount, req[2].amount)
    /\ \E r \in {1, 2} : Got402(r) /\ req[r].balance >= req[r].amount

\* ---- the RPCs called twice ---------------------------------------------------
SameCall(c1, c2) ==
    /\ c1.op = c2.op /\ c1.t = c2.t /\ c1.u = c2.u /\ c1.a = c2.a
    /\ c1.kind = c2.kind /\ c1.ref = c2.ref

\* the second of two equal calls is a replay: it returns the current balance and
\* changes neither balance nor journal, which holds one row of the ref
ReplayOf(c1, c2, delta) ==
    /\ c2.ok /\ c2.value = c2.pre
    /\ c2.post = c1.pre + delta
    /\ c2.len = c1.len
    /\ c2.nrows = 1 /\ c2.kinds = {c1.kind}

\* C9: debit(t,u,a,ref) that charges, followed by the same debit, leaves the balance
\* at initial - a with exactly one deduct row; the second call returns the current
\* balance without charging again.
C9_DebitIdempotent ==
    \A i \in 1..(Len(hist) - 1) :
        (/\ hist[i].op = "deduct" /\ SameCall(hist[i], hist[i + 1])
         /\ hist[i].fresh /\ hist[i].ok)
            => ReplayOf(hist[i], hist[i + 1], 0 - hist[i].a)

\* a debit that charged was followed by the same debit
C9_Witness ==
    \E i \in 1..(Len(hist) - 1) :
        /\ hist[i].op = "deduct" /\ SameCall(hist[i], hist[i + 1])
        /\ hist[i].fresh /\ hist[i].ok /\ hist[i].post = hist[i].pre - hist[i].a
        /\ hist[i + 1].ok

\* C10: credit(t,u,a,ref) that is granted, followed by the same credit, leaves the
\* balance at initial + a with exactly one journal row, the second call being a
\* replay, for the credit kinds topup and adjustment alike.
C10_CreditIdempotent ==
    \A i \in 1..(Len(hist) - 1) :
        (/\ hist[i].op = "credit" /\ SameCall(hist[i], hist[i + 1])
         /\ hist[i].fresh /\ hist[i].ok)
            => ReplayOf(hist[i], hist[i + 1], hist[i].a)

\* ---- two mutations on one (tenant, ref) ----------------------------------------
\* both transactions ran their leading select before either one committed
Raced(r1, r2) ==
    /\ r1 # r2 /\ Done(r1) /\ Done(r2)
    /\ req[r1].rpcRef # NoRef /\ req[r1].rpcRef = req[r2].rpcRef
    /\ req[r1].found = "none" /\ req[r2].found = "none"

SawClassMismatch(r) == req[r].status = 409 /\ req[r].body = ErrBody("ref_class_mismatch")

\* C11: of two concurrent mutations on one (tenant, ref) exactly one writes the
\* journal entry; the loser writes nothing and is answered as an idempotent replay
\* (200) when it is of the same class, as 409 ref_class_mismatch when it is not.
C11_LoserReplaysOrMismatch ==
    \A r1, r2 \in Reqs :
        Raced(r1, r2) =>
            /\ req[r1].wrote \/ req[r2].wrote
            /\ req[r1].wrote =>
                /\ ~req[r2].wrote
                /\ IF req[r1].ep = req[r2].ep THEN Succeeded(r2) ELSE SawClassMismatch(r2)

\* ---- a request and its later retries --------------------------------------------
\* r2 arrived after r1 was answered, with the same key, and both reached claim()
Later(r1, r2) ==
    /\ r1 < r2 /\ Done(r1) /\ Done(r2) /\ SameKey(r1, r2)
    /\ req[r1].claim = "claimed" /\ req[r2].claim # "none"

\* the key's row holds a response
Stored(k) == k \in DOMAIN idempotency_keys /\ idempotency_keys[k].response_status # NullStatus

\* C12 as stated: a later request with the key and payload of a completed one
\* returns the status and body of the first and writes nothing.
C12_LaterReturnsFirst ==
    \A r1, r2 \in Reqs :
        (Later(r1, r2) /\ Payload(req[r1]) = Payload(req[r2]))
            => Observed(r2) = Observed(r1) /\ ~req[r2].wrote

\* C12: a later request with the key and payload of a completed one whose response
\* was persisted, arriving while the record has not expired (and was not released),
\* is a replay: it returns the status and body of the first and writes nothing.
C12_LaterReplaysStored ==
    \A r1, r2 \in Reqs :
        (/\ Later(r1, r2) /\ Payload(req[r1]) = Payload(req[r2])
         /\ Stored(req[r1].key)
         /\ Releases(req[r1].key) = {} /\ Evictions(req[r1].key) = {})
            => /\ req[r2].claim = "replay"
               /\ Observed(r2) = Observed(r1)
               /\ ~req[r2].wrote

\* a deduct was charged and answered 200, and its later retry got the same answer
\* without a second charge
C12_Witness ==
    \E r1, r2 \in Reqs :
        /\ Later(r1, r2) /\ Payload(req[r1]) = Payload(req[r2])
        /\ req[r1].ep = "deduct" /\ req[r1].wrote /\ req[r1].status = 200
        /\ req[r2].claim = "replay" /\ Observed(r2) = Observed(r1) /\ ~req[r2].wrote

\* C13 as stated: after a request with key k succeeded, a later request with k and
\* another payload is answered 409 idempotency_conflict and writes nothing.
C13_LaterConflicts ==
    \A r1, r2 \in Reqs :
        (Later(r1, r2) /\ Payload(req[r1]) # Payload(req[r2]) /\ Succeeded(r1))
            => req[r2].status = 409 /\ SawConflict(r2) /\ ~req[r2].wrote

\* C13: after a request with key k succeeded, a later request with k and another
\* payload that arrives before the record has expired is answered 409
\* idempotency_conflict and writes nothing, on the deduct and the top-up endpoint.
C13_LaterConflictsUnlessExpired ==
    \A r1, r2 \in Reqs :
        (/\ Later(r1, r2) /\ Payload(req[r1]) # Payload(req[r2]) /\ Succeeded(r1)
         /\ Evictions(req[r1].key) = {})
            => req[r2].status = 409 /\ SawConflict(r2) /\ ~req[r2].wrote

\* a top-up succeeded and a later top-up with the same key and another body was
\* turned away with 409 idempotency_conflict
C13_Witness ==
    \E r1, r2 \in Reqs :
        /\ Later(r1, r2) /\ Payload(req[r1]) # Payload(req[r2]) /\ Succeeded(r1)
        /\ req[r1].ep = "topup" /\ req[r2].ep = "topup"
        /\ req[r2].status = 409 /\ SawConflict(r2) /\ ~req[r2].wrote

\* ---- insufficient funds -----------------------------------------------------------
\* the 402 body { price_credits: a, currency, topup_url: /topup?need=a&user=<userId> }
Is402For(q, q0) ==
    /\ q.status = 402
    /\ q.body = [ok |-> "absent", error |-> "", n |-> q0.amount, user |-> q0.userId]

LedgerUntouched == credits' = credits /\ tx_ledger' = tx_ledger

\* the balance that the step of request q meets is below the amount: at the
\* pre-check, or at the conditional update of deduct_balance
MeetsShortBalance(q) ==
    /\ q.ep = "deduct" /\ q.claimed
    /\ \/ q.pc = "get_balance"
       \/ q.pc = "rpc_write" /\ q.found = "none"
    /\ BalanceOf(credits, tenantId, q.userId) < q.amount

C14_Step ==
    \A r \in Reqs :
        /\ (MeetsShortBalance(req[r]) /\ req'[r] # req[r])
            => /\ req'[r].pc = "persist" /\ Is402For(req'[r], req[r])
               /\ ~req'[r].wrote /\ LedgerUntouched
        /\ (req[r].pc = "persist" /\ req[r].status = 402 /\ req'[r].pc = "done")
            => /\ LedgerUntouched
               /\ \/ idempotency_keys' = idempotency_keys
                  \/ /\ idempotency_keys'[req[r].key].response_status = 402
                     /\ idempotency_keys'[req[r].key].response_body = req[r].body
        /\ (/\ req[r].pc = "claim_read" /\ req'[r].claim = "replay"
            /\ idempotency_keys[req[r].key].response_status = 402)
            => /\ req'[r].pc = "done" /\ Is402For(req'[r], req[r])
               /\ LedgerUntouched /\ idempotency_keys' = idempotency_keys

\* C14: a claimed deduct for amount a that meets a balance < a is answered 402 with
\* {price_credits: a, topup_url with need=a and user=userId}, writes no journal entry
\* and leaves the balance as it is; the 402 is handed to persistResponse, which
\* stores it unless the store write fails, and a replay of the key returns that 402.
C14_Insufficient402 == [][C14_Step]_vars

\* a deduct failed the balance pre-check with 402 and a second request with its key
\* and payload was replayed the same 402
C14_Witness ==
    \E r1, r2 \in Reqs :
        /\ r1 # r2 /\ SameKey(r1, r2) /\ Payload(req[r1]) = Payload(req[r2])
        /\ req[r1].ep = "deduct" /\ req[r1].claimed /\ Done(r1)
        /\ req[r1].balance # NoNum /\ req[r1].balance < req[r1].amount
        /\ Is402For(req[r1], req[r1]) /\ ~req[r1].wrote
        /\ req[r2].claim = "replay" /\ Is402For(req[r2], req[r1])

\* ---- a deduct whose ref belongs to an entry of another kind --------------------
\* C15: a deduct whose ref the journal already holds with a non-deduct kind is
\* answered 409 ref_class_mismatch, and the balance is unchanged.
C15_ClassMismatch409 ==
    \A r \in Reqs :
        (/\ req[r].ep = "deduct" /\ req[r].pc \in {"persist", "done"}
         /\ req[r].rpcRef # NoRef /\ req[r].found \notin {"none", "deduct"})
            => SawClassMismatch(r) /\ ~req[r].wrote

\* ---- the boundary of the deduct endpoint -----------------------------------------
\* no request has arrived after r
Latest(r) == \A p \in Reqs : p > r => req[p].pc = "idle"

\* C16: a claimed deduct with a fresh ref and amount == balance is answered 200 and
\* the balance becomes 0; one with amount == balance + 1 is answered 402 and changes
\* neither balance nor journal.
C16_Boundary ==
    \A r \in Reqs :
        (/\ req[r].ep = "deduct" /\ req[r].pc \in {"persist", "done"} /\ Latest(r)
         /\ req[r].balance # NoNum /\ req[r].found = "none")
            => /\ req[r].balance = req[r].amount
                    => /\ req[r].status = 200 /\ req[r].body = OkBalance(0)
                       /\ req[r].wrote
                       /\ BalanceOf(credits, tenantId, req[r].userId) = 0
               /\ req[r].balance + 1 = req[r].amount
                    => /\ Is402For(req[r], req[r])
                       /\ ~req[r].wrote
                       /\ BalanceOf(credits, tenantId, req[r].userId) = req[r].balance

\* one deduct took the whole balance, and the next one, for balance + 1, got 402
C16_Witness ==
    \E r1, r2 \in Reqs :
        /\ r1 < r2 /\ Done(r1) /\ Done(r2) /\ Latest(r2)
        /\ req[r1].ep = "deduct" /\ req[r2].ep = "deduct" /\ req[r1].userId = req[r2].userId
        /\ req[r1].balance = req[r1].amount /\ req[r1].status = 200 /\ req[r1].wrote
        /\ req[r2].balance = 0 /\ req[r2].amount = 1 /\ req[r2].status = 402
        /\ BalanceOf(credits, tenantId, req[r2].userId) = 0

\* ---- a top-up and its retries ------------------------------------------------------
InitialBalanceOf(u) == IF u = "u1" THEN InitialBalance ELSE 0

GrantedTopups ==
    {i \in 1..Len(tx_ledger) : tx_ledger[i].kind = "topup" /\ tx_ledger[i].ref # SeedRef}

\* all requests so far are one top-up request and its retries, and all are answered
OnlyTopupRetries ==
    /\ Quiet /\ req[1].ep = "topup"
    /\ \A r \in Reqs : req[r].pc # "idle"
            => /\ req[r].ep = "topup" /\ req[r].key = req[1].key
               /\ Payload(req[r]) = Payload(req[1])

GrantedOnce ==
    /\ \A r \in Reqs : req[r].pc # "idle" => Observed(r) = <<200, OkPlain>>
    /\ BalanceOf(credits, tenantId, req[1].userId)
            = InitialBalanceOf(req[1].userId) + req[1].amount
    /\ Cardinality(GrantedTopups) = 1

\* C17 as stated: a top-up and its retries with the same key and body, whenever
\* they come, are all answered 200 {ok:true} and grant the amount once.
C17_TopupGrantedOnce == OnlyTopupRetries => GrantedOnce

\* C17: a top-up and its retries with the same key and body are all answered 200
\* {ok:true} and grant the amount once (balance = initial + amount, one topup
\* entry), provided the first response was persisted and the retries come before
\* the record expires.
C17_TopupGrantedOnceWithinTtl ==
    (OnlyTopupRetries /\ Stored(req[1].key) /\ Evictions(req[1].key) = {}) => GrantedOnce

\* a top-up was granted and its retry was replayed the 200 without a second grant
C17_Witness ==
    /\ OnlyTopupRetries /\ Stored(req[1].key) /\ Evictions(req[1].key) = {}
    /\ req[1].wrote /\ req[2].claim = "replay" /\ ~req[2].wrote
    /\ Cardinality(GrantedTopups) = 1

\* ---- reset ----------------------------------------------------------------------
\* C18: the amount that reset journals as manual_reset (the balance it read) is the
\* balance immediately before it zeroes the row, whatever interleaves with it.
C18_ZeroStep ==
    \A r \in Reqs :
        (req[r].pc = "reset_zero" /\ req'[r].pc # "reset_zero")
            => req[r].balance = BalanceOf(credits, tenantId, req[r].userId)

C18_ResetJournalsZeroedBalance == [][C18_ZeroStep]_vars

\* ---- the order of the deduct pipeline ---------------------------------------------
\* the request carries the signature of the tenant's secret over its own body, with
\* a timestamp inside the window
Authentic(q, clock) ==
    /\ q.hdr.sig # <<>>
    /\ q.hdr.sig = computeSig("s_T", RawBody(q), q.hdr.sig[1].value).header
    /\ q.hdr.bodySha = hashBody(RawBody(q))
    /\ clock - q.hdr.sig[1].value <= ALLOWED_SKEW_SECONDS
    /\ q.hdr.sig[1].value - clock <= ALLOWED_SKEW_SECONDS

\* the values of x-f402-key that name the tenant: its api_key, slug or id
TenantKeys == {"vk_demo_key", "demo", tenantId}

C19_Step ==
    \A r \in Reqs :
        (req'[r].ep = "deduct" /\ req'[r] # req[r]) =>
            \* up to and including the step that verifies, nothing is written
            /\ req[r].pc \in {"idle", "vendor", "verify"} => UNCHANGED dbvars
            \* claim() is entered from verify only, by an authentic request of the tenant
            /\ (req'[r].pc = "claim_insert" /\ req[r].pc \notin {"claim_read", "claim_evict"})
                => /\ req[r].pc = "verify"
                   /\ req[r].vendorKey \in TenantKeys
                   /\ Authentic(req[r], UnixSeconds(now))
            \* a request that was turned away has never reached claim()
            /\ req'[r].status = 401
                => /\ req'[r].claim = "none" /\ ~req'[r].claimed
                   /\ req'[r].evictions = 0 /\ ~req'[r].released
            \* writes derived from the body come after Claimed
            /\ <<credits, tx_ledger, vendor_users>>' # <<credits, tx_ledger, vendor_users>>
                => req[r].claimed /\ req[r].claim = "claimed"

\* C19: a deduct request that fails vendor resolution or signature verification
\* never touches the idempotency store; claim() runs only after verify succeeded,
\* and every write to balance, journal or vendor users comes after Claimed.
C19_ClaimAfterVerify == [][C19_Step]_vars

\* one request was turned away at verification and left no record, and one passed
\* verification, claimed its key and charged
C19_Witness ==
    \E r1, r2 \in Reqs :
        /\ Done(r1) /\ req[r1].status = 401
        /\ req[r1].body = InvalidSignature("signature_mismatch")
        /\ Done(r2) /\ req[r2].ep = "deduct" /\ req[r2].vendorKey \in TenantKeys
        /\ req[r2].claim = "claimed" /\ req[r2].wrote

\* ---- the HMAC round trip ------------------------------------------------------------
\* C20: a request signed with (secret, body, t) verifies at every clock with
\* |clock - t| <= 300 and fails with timestamp_out_of_window at every clock with
\* |clock - t| > 300; with another body than the signed one it fails with
\* body_hash_mismatch.
C20_RoundTrip ==
    \A i \in 1..Len(hist) :
        IF hist[i].sent = hist[i].body
        THEN IF Abs(hist[i].clock - hist[i].t) <= ALLOWED_SKEW_SECONDS
             THEN hist[i].result = VerifyOk
             ELSE hist[i].result = VerifyFail("timestamp_out_of_window")
        ELSE hist[i].result = VerifyFail("body_hash_mismatch")

\* ---- tenant scope of the deduct endpoint ---------------------------------------------
\* the values of x-f402-key that name another tenant
OtherTenantKeys == {"vk_acme_key", "acme", otherTenantId}

C21_Step ==
    /\ \A x \in DOMAIN credits' : x[1] = tenantId
    /\ \A i \in 1..Len(tx_ledger') : tx_ledger'[i].tenant_id = tenantId
    /\ \A x \in vendor_users' : x[1] = tenantId
    /\ \A r \in Reqs :
        (req'[r].ep = "deduct" /\ req'[r] # req[r] /\ req'[r].vendorKey \notin TenantKeys) =>
            /\ UNCHANGED dbvars
            /\ req'[r].claim = "none" /\ ~req'[r].claimed
            /\ (req[r].pc = "vendor" /\ req'[r].body # ErrBody("vendor_lookup_failed")) =>
                /\ req'[r].pc = "done"
                /\ req'[r].vendorKey \in OtherTenantKeys =>
                    Observed(r)' = <<401, InvalidSignature("vendor_mismatch")>>
                /\ (req'[r].vendorKey \notin OtherTenantKeys /\ apiKeySchema(req'[r].vendorKey)) =>
                    Observed(r)' = <<401, InvalidSignature("unknown_vendor")>>

RowWith(tbl, column, value) == CHOOSE v \in tbl : v[column] = value
Has(tbl, column, value) == \E v \in tbl : v[column] = value

\* api_key, then slug, then (for a UUID) id; the first match wins
FirstMatch(call) ==
    LET key == trim(call.credential)
        tbl == call.tbl
    IN
    IF Has(tbl, "api_key", key)
        THEN call.result = VendorResult(RowWith(tbl, "api_key", key), "")
    ELSE IF Has(tbl, "slug", key)
        THEN call.result = VendorResult(RowWith(tbl, "slug", key), "")
    ELSE IF uuidSchema(key) /\ Has(tbl, "id", key)
        THEN call.result = VendorResult(RowWith(tbl, "id", key), "")
    ELSE call.result.error = "vendor_not_found"

\* C22: resolve(credential) trims the credential and looks the tenant up by
\* api_key, then by slug, then (only if the credential parses as a UUID) by id; the
\* first match wins, and when every lookup returns no row the result is
\* vendor_not_found.
C22_Resolve == \A i \in 1..Len(hist) : FirstMatch(hist[i])

\* C22 (amended): the same for a credential of at least 4 characters after trimming;
\* a shorter credential is rejected with validation_error before any lookup.
C22_ResolveValidKey ==
    \A i \in 1..Len(hist) :
        IF Len(trim(hist[i].credential)) >= 4
            THEN FirstMatch(hist[i])
            ELSE hist[i].result = VendorResult(NoVendor, "validation_error")

\* a padded credential that is the api_key of one row and the slug of the other
\* resolved to the row of the api_key
C22_Witness ==
    \E i \in 1..Len(hist) :
        LET call == hist[i]
            key == trim(call.credential)
        IN /\ key # call.credential
           /\ Has(call.tbl, "api_key", key) /\ Has(call.tbl, "slug", key)
           /\ RowWith(call.tbl, "api_key", key) # RowWith(call.tbl, "slug", key)
           /\ call.result.vendor = RowWith(call.tbl, "api_key", key)

\* ---- a response that could not be persisted --------------------------------------------
Reserved(k) == k \in DOMAIN idempotency_keys /\ idempotency_keys[k].response_status = NullStatus

RowPayload(row) == <<row.method, row.path, row.body_sha>>

C23_Step ==
    \A r \in Reqs :
        LET q == req[r]
            k == q.key
        IN
        \* the step that persists the answer of a Claimed request either stores it
        \* or, when the store call fails, leaves the reservation as it is
        /\ (q.pc = "persist" /\ req'[r].pc = "done" /\ q.claimed /\ Reserved(k)) =>
            /\ Observed(r)' = Observed(r)
            /\ \/ idempotency_keys' = idempotency_keys
               \/ idempotency_keys' =
                    [idempotency_keys EXCEPT ![k].response_status = q.status,
                                             ![k].response_body = q.body]
        \* a retry that meets the reservation within the TTL
        /\ (q.pc \in {"claim_insert", "claim_read"} /\ req'[r] # q /\ Reserved(k)
            /\ RowPayload(idempotency_keys[k]) = Payload(q)
            /\ now - idempotency_keys[k].created_at <= DEFAULT_TTL_MS) =>
            /\ UNCHANGED dbvars
            /\ q.pc = "claim_insert" => req'[r].pc = "claim_read"
            /\ q.pc = "claim_read" =>
                /\ req'[r].pc = "done" /\ req'[r].claim = "locked"
                /\ Observed(r)' = <<409, ErrBody("request_in_progress")>>
                /\ ~req'[r].claimed /\ ~req'[r].wrote

\* C23: when persistResponse fails after the handler of a Claimed request has
\* produced its answer, the answer is still sent and the row stays reserved; until the
\* TTL has elapsed every retry with the same key and payload is decided Locked (409
\* request_in_progress), is served no other answer and writes nothing.
C23_LockedAfterFailedPersist == [][C23_Step]_vars

\* a deduct was charged and answered 200, its answer was not stored, and the retry
\* with the same key and payload found the reservation and was answered Locked
C23_Witness ==
    \E r1, r2 \in Reqs :
        /\ Later(r1, r2) /\ Payload(req[r1]) = Payload(req[r2])
        /\ req[r1].claimed /\ req[r1].wrote /\ req[r1].status = 200
        /\ Reserved(req[r1].key)
        /\ req[r2].claim = "locked" /\ SawLocked(r2) /\ ~req[r2].wrote

\* ---- exceptions after a successful claim -----------------------------------------------
\* the handler of a Claimed deduct ended with an exception that is neither an
\* invalid request nor insufficient funds
OtherException(r) ==
    /\ req[r].ep = "deduct" /\ Done(r) /\ req[r].claimed
    /\ req[r].status \notin {200, 402}
    /\ req[r].body # ErrBody("invalid_request")

\* C24: when the deduct handler, after a successful claim, raises an exception that
\* is neither an invalid request nor insufficient funds (a failed balance lookup, a
\* failed ledger RPC), it releases the key and answers 500, and a later retry with
\* the same key and payload is Claimed again.
C24_ReleasedAnd500 ==
    \A r \in Reqs :
        OtherException(r) =>
            /\ req[r].status = 500 /\ req[r].released
            /\ \A r2 \in Reqs :
                (r < r2 /\ Done(r2) /\ SameKey(r, r2) /\ Payload(req[r]) = Payload(req[r2])
                 /\ req[r2].claim # "none") => req[r2].claim = "claimed"

\* ---- status of store failures -----------------------------------------------------------
StoreFailures == {"vendor_lookup_failed", "idempotency_store_failed",
                  "balance_lookup_failed", "mutation_failed"}

\* C25: the deduct endpoint answers 500 for vendor_lookup_failed,
\* idempotency_store_failed, balance_lookup_failed and mutation_failed.
C25_StoreFailure500 ==
    \A r \in Reqs :
        (req[r].ep = "deduct" /\ Done(r) /\ req[r].body.error \in StoreFailures)
            => req[r].status = 500

\* ---- outbound signature ------------------------------------------------------------------
\* the response headers carry a signature of the tenant's secret over the response body
SignedResponse(q) ==
    /\ q.respHdr.sig # <<>>
    /\ q.respHdr.sig = computeSig("s_T", q.body, q.respHdr.sig[1].value).header

\* C26: every 402 paywall response and every 200 response of the deduct endpoint
\* carries an outbound x-f402-sig header computed over the response body with the
\* tenant's signing secret.
C26_ResponsesSigned ==
    \A r \in Reqs :
        (req[r].ep = "deduct" /\ Done(r) /\ req[r].status \in {200, 402})
            => SignedResponse(req[r])

\* ---- the order of the pipeline's checks --------------------------------------------------
VerifyReasons == {"missing_signature_header", "invalid_signature_format",
                  "timestamp_out_of_window", "missing_body_hash", "body_hash_mismatch",
                  "signature_mismatch"}

AnswerIs(r, status, body) == Observed(r) = <<status, body>>
FailedWith(r, codes) == req[r].body.error \in codes

\* the answer of a request turned away at tenant resolution, or at verification
TurnedAwayAtTenant(r) ==
    \/ AnswerIs(r, 401, InvalidSignature("unknown_vendor"))
    \/ AnswerIs(r, 401, InvalidSignature("vendor_mismatch"))
TurnedAwayAtVerify(r) == \E reason \in VerifyReasons : AnswerIs(r, 401, InvalidSignature(reason))

\* the answer of a request whose claim() was decided Replay, Conflict or Locked
DecidedByClaim(r) ==
    /\ req[r].claim \in {"replay", "conflict", "locked"}
    /\ req[r].claim = "conflict" => AnswerIs(r, 409, ErrBody("idempotency_conflict"))
    /\ req[r].claim = "locked" => AnswerIs(r, 409, ErrBody("request_in_progress"))

\* the answer of a request that passed body validation
AfterValidation(r) ==
    IF req[r].balance # NoNum /\ req[r].balance < req[r].amount
        THEN Got402(r)
        ELSE \/ Got200(r) \/ Got402(r)
             \/ FailedWith(r, {"balance_lookup_failed", "mutation_failed", "unknown_error"})

InvalidBody(q) == ~q.json \/ q.amount <= 0
InvalidRequest == <<400, ErrBody("invalid_request")>>

C28_Step ==
    \A r \in Reqs :
        LET q == req[r]
            k == q.key
        IN
        (q.ep = "deduct" /\ req'[r] # q) =>
            \* the claim of a request with an invalid body ends in the answer 400
            /\ (q.pc = "claim_insert" /\ req'[r].claimed /\ InvalidBody(q)) =>
                /\ req'[r].pc = "persist" /\ Observed(r)' = InvalidRequest
            \* which is stored under the key, unless the store write fails
            /\ (q.pc = "persist" /\ InvalidBody(q)) =>
                /\ req'[r].pc = "done" /\ Observed(r)' = InvalidRequest
                /\ \/ /\ Stored(k)' /\ RowPayload(idempotency_keys'[k]) = Payload(q)
                      /\ idempotency_keys'[k].response_status = 400
                      /\ idempotency_keys'[k].response_body = ErrBody("invalid_request")
                   \/ idempotency_keys' = idempotency_keys
            \* and a retry with the same key and body replays it
            /\ (q.pc = "claim_read" /\ InvalidBody(q) /\ Stored(k)
                /\ RowPayload(idempotency_keys[k]) = Payload(q)) =>
                /\ req'[r].pc = "done" /\ UNCHANGED dbvars
                /\ \/ req'[r].claim = "replay" /\ Observed(r)' = InvalidRequest
                   \/ Observed(r)' = <<500, ErrBody("idempotency_store_failed")>>
            \* an invalid body never reaches the balance or the journal
            /\ InvalidBody(q) => LedgerUntouched /\ vendor_users' = vendor_users

\* C28: a signed deduct request whose body is malformed JSON or fails schema
\* validation is answered 400 invalid_request; the answer is persisted under its
\* idempotency key (unless that store write fails), and a retry with the same key
\* and body replays the same 400 (unless reading the record fails, which is answered
\* 500 idempotency_store_failed).
C28_InvalidBodyPersisted == [][C28_Step]_vars

\* a request with a schema-invalid body was answered 400 invalid_request, and its
\* retry got the stored 400 replayed
C28_Witness ==
    \E r1, r2 \in Reqs :
        /\ Later(r1, r2) /\ Payload(req[r1]) = Payload(req[r2])
        /\ ParseBody(RawBody(req[r1])) = "ZodError"
        /\ Observed(r1) = InvalidRequest /\ Stored(req[r1].key)
        /\ req[r2].claim = "replay" /\ Observed(r2) = InvalidRequest

\* the same for a body that is not JSON
C28_WitnessMalformed ==
    \E r1, r2 \in Reqs :
        /\ Later(r1, r2) /\ Payload(req[r1]) = Payload(req[r2])
        /\ ParseBody(RawBody(req[r1])) = "SyntaxError"
        /\ Observed(r1) = InvalidRequest /\ Stored(req[r1].key)
        /\ req[r2].claim = "replay" /\ Observed(r2) = InvalidRequest

\* ---- claim() on an existing row ----------------------------------------------------------
C29_Step ==
    \A r \in Reqs :
        LET q == req[r]
            k == q.key
        IN
        \* the insert that meets a row leaves it alone
        /\ (q.pc = "claim_insert" /\ req'[r] # q /\ k \in DOMAIN idempotency_keys) =>
            /\ UNCHANGED dbvars /\ req'[r].pc = "claim_read"
        \* the decision on an unexpired row
        /\ (q.pc = "claim_read" /\ req'[r] # q /\ k \in DOMAIN idempotency_keys
            /\ now - idempotency_keys[k].created_at <= DEFAULT_TTL_MS) =>
            LET row == idempotency_keys[k] IN
            /\ UNCHANGED dbvars
            /\ req'[r].pc = "done" /\ ~req'[r].claimed
            /\ IF RowPayload(row) # Payload(q)
                 THEN /\ req'[r].claim = "conflict"
                      /\ Observed(r)' = <<409, ErrBody("idempotency_conflict")>>
               ELSE IF row.response_status # NullStatus
                 THEN /\ req'[r].claim = "replay"
                      /\ Observed(r)' = <<row.response_status, row.response_body>>
               ELSE /\ req'[r].claim = "locked"
                    /\ Observed(r)' = <<409, ErrBody("request_in_progress")>>
        \* a request decided Locked, Replay or Conflict writes nothing, then or later
        /\ (req'[r] # q /\ req'[r].claim \in {"locked", "replay", "conflict"}) =>
            UNCHANGED dbvars

\* C29: claim() on an existing, unexpired row never changes the row: a matching
\* request against a reserved row is Locked, against a completed row Replay(stored
\* status, stored body), a request differing in method, path or body hash Conflict;
\* the Locked answer (409 request_in_progress) is not persisted.
C29_ClaimLeavesRow == [][C29_Step]_vars

\* while the request that reserved the key is still being handled, a second request
\* with the same payload was answered Locked and the row is still the reservation
C29_Witness ==
    \E r1, r2 \in Reqs :
        /\ req[r1].claimed /\ ~Done(r1) /\ SameKey(r1, r2)
        /\ Done(r2) /\ req[r2].claim = "locked" /\ SawLocked(r2)
        /\ Reserved(req[r1].key)
        /\ RowPayload(idempotency_keys[req[r1].key]) = Payload(req[r2])

\* ---- expiry of a record -------------------------------------------------------------------
Age(k) == now - idempotency_keys[k].created_at

C30_Step ==
    \A r \in Reqs :
        LET q == req[r]
            k == q.key
        IN
        \* a row older than the TTL is evicted, whatever the payload; a row aged the
        \* TTL or less is decided
        /\ (q.pc = "claim_read" /\ req'[r] # q /\ k \in DOMAIN idempotency_keys) =>
            IF Age(k) > DEFAULT_TTL_MS
                THEN req'[r].pc = "claim_evict" /\ req'[r].claim = "none"
                ELSE req'[r].pc = "done" /\ req'[r].claim \in {"locked", "replay", "conflict"}
        /\ (q.pc = "claim_evict" /\ req'[r] # q) =>
            /\ k \notin DOMAIN idempotency_keys'
            /\ req'[r].pc = "claim_insert" /\ req'[r].evictions = q.evictions + 1
        \* after the eviction the request is Claimed as on a fresh key
        /\ (q.pc = "claim_insert" /\ q.evictions > 0 /\ req'[r] # q
            /\ k \notin DOMAIN idempotency_keys) =>
            /\ req'[r].claimed /\ req'[r].claim = "claimed"
            /\ k \in DOMAIN idempotency_keys'
            /\ RowPayload(idempotency_keys'[k]) = Payload(q)
            /\ idempotency_keys'[k].created_at = now
            /\ idempotency_keys'[k].response_status = NullStatus

\* C30: a record is expired exactly when now - created_at > 24 h: a request that
\* meets a row older than that (even with a conflicting payload) evicts the row and
\* is Claimed normally, and a row aged exactly 24 h or less is still decided as
\* Locked, Replay or Conflict.
C30_ExpiredIffOlderThanTtl == [][C30_Step]_vars

\* the first request reserved the key at time 0; a request with another payload
\* came 24 h and 1 ms later, evicted the row and was Claimed
C30_Witness ==
    \E r1, r2 \in Reqs :
        /\ r1 < r2 /\ Done(r1) /\ Done(r2) /\ SameKey(r1, r2)
        /\ Payload(req[r1]) # Payload(req[r2])
        /\ req[r1].claimed /\ req[r2].evictions = 1 /\ req[r2].claim = "claimed"
        /\ now = DEFAULT_TTL_MS + 1
        /\ req[r2].key \in DOMAIN idempotency_keys
        /\ idempotency_keys[req[r2].key].created_at = DEFAULT_TTL_MS + 1

\* a request with another payload came exactly 24 h after the reservation and was
\* answered Conflict
C30_WitnessAtTtl ==
    \E r1, r2 \in Reqs :
        /\ Later(r1, r2) /\ req[r2].claim = "conflict" /\ req[r2].evictions = 0
        /\ idempotency_keys[req[r1].key].created_at = 0
        /\ now = DEFAULT_TTL_MS

\* ------------------------------------------------------------------------
\* C31
\* ------------------------------------------------------------------------
\* the signature header that counts: x-f402-sig when it is there, else the legacy one
Preferred(headers) == IF headers.sig = <<>> THEN headers.legacy ELSE headers.sig

HasPart(header, key) == \E i \in 1..Len(header) : header[i].key = key
PartOf(header, key) == header[CHOOSE i \in 1..Len(header) : header[i].key = key]

\* t is an integer and v1 a hex string, both present
WellFormedSignature(header) ==
    /\ HasPart(header, "t") /\ HasPart(header, "v1")
    /\ \A i \in 1..Len(header) : "junk" \notin DOMAIN header[i]

\* the first failing check of a call, in the documented order
FirstFailing(call) ==
    LET header == Preferred(call.headers) IN
    IF header = <<>> THEN "missing_signature_header"
    ELSE IF ~WellFormedSignature(header) THEN "invalid_signature_format"
    ELSE IF Abs(call.clock - PartOf(header, "t").value) > 300 THEN "timestamp_out_of_window"
    ELSE IF call.headers.bodySha = <<>> THEN "missing_body_hash"
    ELSE IF call.headers.bodySha # <<"sha256", call.body>> THEN "body_hash_mismatch"
    ELSE IF PartOf(header, "v1").value
                # <<"hmac", "s_T", PartOf(header, "t").value, call.body>>
        THEN "signature_mismatch"
    ELSE ""

\* C31: verify reports the first failing check in the order missing_signature_header,
\* invalid_signature_format, timestamp_out_of_window, missing_body_hash,
\* body_hash_mismatch, signature_mismatch, and ok only when every check passes;
\* x-f402-sig is the header verified when the legacy header is present too.
C31_FirstFailingCheck ==
    \A i \in 1..Len(hist) :
        /\ hist[i].result.ok = (FirstFailing(hist[i]) = "")
        /\ hist[i].result.reason = FirstFailing(hist[i])

\* the same on calls whose signature header is well formed with t >= 1 or is absent
VerifyOrderOnWellFormed ==
    \A i \in 1..Len(hist) :
        LET header == Preferred(hist[i].headers) IN
        (header = <<>> \/ (WellFormedSignature(header) /\ PartOf(header, "t").value # 0))
            => /\ hist[i].result.ok = (FirstFailing(hist[i]) = "")
               /\ hist[i].result.reason = FirstFailing(hist[i])

\* a header whose t= value has letters after its digits verifies
C31_MalformedAccepted ==
    \E i \in 1..Len(hist) :
        /\ ~WellFormedSignature(Preferred(hist[i].headers))
        /\ hist[i].result.ok

\* ------------------------------------------------------------------------
\* C32
\* ------------------------------------------------------------------------
\* the three cases of a mutation that must not reach the store
GuardCase(input) ==
    \/ input.kind = "credit" /\ input.deltaCredits <= 0
    \/ input.kind \in {"debit", "fee"} /\ input.deltaCredits >= 0
    \/ input.kind \in {"debit", "fee"} /\ input.ref \in {undefined, ""}

\* the input has the shape the schema asks for: UUIDs and a ref, if any, of 4
\* characters or more
WellShaped(input) ==
    /\ input.vendorId = tenantId /\ input.vendorUserId = userId
    /\ input.ref \in {undefined, "ref_1", "ref_2"}

Rejected(call, code) == call.error = code /\ call.rpc = "none" /\ call.unchanged

\* C32 as stated: in each of the three cases incrementBalance rejects with
\* mutation_guard_failed, issues no RPC and leaves the store as it was.
C32_GuardRejects ==
    \A i \in 1..Len(hist) :
        GuardCase(hist[i].input) => Rejected(hist[i], "mutation_guard_failed")

\* C32 amended: an input in one of the three cases issues no RPC and leaves the
\* store as it was; it is rejected with mutation_guard_failed when it has the
\* shape the schema asks for and with validation_error when it has not (the
\* schema is parsed before the guards).
C32_GuardRejectsWellShaped ==
    \A i \in 1..Len(hist) :
        GuardCase(hist[i].input) =>
            IF WellShaped(hist[i].input)
                THEN Rejected(hist[i], "mutation_guard_failed")
                ELSE Rejected(hist[i], "validation_error")

\* a debit with a negative delta and no ref is rejected after a credit went through
C32_Witness ==
    \E i, j \in 1..Len(hist) :
        /\ i < j
        /\ hist[i].rpc = "increment_balance" /\ hist[i].error = "" /\ ~hist[i].unchanged
        /\ hist[j].input.kind = "debit" /\ hist[j].input.deltaCredits < 0
        /\ hist[j].input.ref = undefined /\ WellShaped(hist[j].input)
        /\ Rejected(hist[j], "mutation_guard_failed")

\* ------------------------------------------------------------------------
\* C33
\* ------------------------------------------------------------------------
\* C33: ensureVendorUser(tenant, user) returns the row of (tenant, user), inserting
\* it when there is none; no (tenant, user) ever has two rows, a call that returned
\* leaves exactly one, and of two calls that race on the insert the one that meets
\* the uniqueness violation reads the row again and returns it.
C33_Step ==
    /\ \A x \in vendor_users' :
        Cardinality(VendorUserRows(vendor_users', x[1], x[2])) = 1
    /\ \A i \in 1..Len(hist') :
        LET call == hist'[i] IN
        (uuidSchema(call.vendorId) /\ uuidSchema(call.userId)) =>
            /\ call.result = "row"
            /\ Cardinality(VendorUserRows(vendor_users', call.vendorId, call.userId)) = 1
    /\ \A r \in Reqs :
        (req[r].pc = "retry" /\ req'[r].pc = "done")
            => hist'[Len(hist')].retried /\ hist'[Len(hist')].result = "row"
    /\ \A i, j \in 1..Len(hist') :
        (i # j /\ hist'[i].inserted /\ hist'[j].inserted)
            => <<hist'[i].vendorId, hist'[i].userId>> # <<hist'[j].vendorId, hist'[j].userId>>

C33_EnsureOnce == [][C33_Step]_vars

\* two calls for one user both passed the first read, one inserted and the other
\* returned the row after its insert was refused
C33_Witness ==
    /\ Len(hist) = 2
    /\ hist[1].userId = hist[2].userId /\ hist[1].vendorId = hist[2].vendorId
    /\ hist[1].inserted /\ ~hist[2].inserted /\ hist[2].retried
    /\ hist[1].result = "row" /\ hist[2].result = "row"
    /\ \E r \in Reqs : req[r].pc = "done" /\ req[r].ep = "ensureVendorUser"
    /\ Cardinality(vendor_users) = 1

\* ------------------------------------------------------------------------
\* C34
\* ------------------------------------------------------------------------
\* what a journal entry of this kind adds to the balance
Signed(row) ==
    IF row.kind \in {"topup", "adjustment"} THEN row.amount_cents
    ELSE IF row.kind \in {"deduct", "manual_reset"} THEN 0 - row.amount_cents
    ELSE 0

\* the sum over the first n journal entries of (tenant, user)
RECURSIVE JournalBalance(_, _, _)
JournalBalance(n, t, u) ==
    IF n = 0 THEN 0
    ELSE JournalBalance(n - 1, t, u)
            + (IF tx_ledger[n].tenant_id = t /\ tx_ledger[n].user_id = u
               THEN Signed(tx_ledger[n]) ELSE 0)

\* C34: in every committed state and for every (tenant, user), the balance is the
\* sum of the topup and adjustment amounts minus the deduct amounts minus the
\* manual_reset amounts of the journal.
C34_BalanceMatchesJournal ==
    \A t \in Tenants, u \in Users :
        BalanceOf(credits, t, u) = JournalBalance(Len(tx_ledger), t, u)

\* every request has been answered, and the balance of a user is not what the
\* journal adds up to
C34_DivergedAtRest ==
    /\ Quiet
    /\ \E u \in Users :
        BalanceOf(credits, tenantId, u) # JournalBalance(Len(tx_ledger), tenantId, u)

\* ------------------------------------------------------------------------
\* C35
\* ------------------------------------------------------------------------
\* the journal holds a deduct entry of the tenant with this ref, user and amount
DeductEntry(ref, u, a) ==
    \E i \in 1..Len(tx_ledger) :
        /\ tx_ledger[i].kind = "deduct" /\ tx_ledger[i].tenant_id = tenantId
        /\ tx_ledger[i].ref = ref /\ tx_ledger[i].user_id = u
        /\ tx_ledger[i].amount_cents = a

\* C35: whenever the deduct endpoint answers 200 {ok: true, new_balance} to a
\* request (userId u, ref r, amount a), the journal contains a deduct entry with
\* ref r for user u and amount a.
C35_Answer200HasOwnEntry ==
    \A r \in Reqs :
        (req[r].ep = "deduct" /\ Done(r) /\ Got200(r))
            => DeductEntry(req[r].ref, req[r].userId, req[r].amount)

\* a deduct was answered 200 while the only deduct entry of its ref belongs to
\* another request with another user or amount
C35_AnsweredOnForeignEntry ==
    \E r \in Reqs :
        /\ req[r].ep = "deduct" /\ Done(r) /\ Got200(r) /\ ~req[r].wrote
        /\ req[r].claim = "claimed"
        /\ ~DeductEntry(req[r].ref, req[r].userId, req[r].amount)
        /\ RefRows(tx_ledger, tenantId, req[r].ref) # {}

\* ------------------------------------------------------------------------
\* C36
\* ------------------------------------------------------------------------
\* C36: every top-up request that obtained Claimed and is answered 200 {ok: true}
\* has raised the balance by its amount and written its own topup journal entry,
\* also when another top-up was processed in the same millisecond.
C36_Step ==
    \A r \in Reqs :
        (req[r].ep = "topup" /\ req[r].claim = "claimed" /\ req[r].pc = "rpc_write"
         /\ req'[r].status = 200)
            => /\ BalanceOf(credits', tenantId, req[r].userId)
                    = BalanceOf(credits, tenantId, req[r].userId) + req[r].amount
               /\ Len(tx_ledger') = Len(tx_ledger) + 1
               /\ tx_ledger'[Len(tx_ledger')]
                    = LedgerRow(tenantId, req[r].userId, "topup", req[r].amount, req[r].rpcRef)

C36_Topup200Credits == [][C36_Step]_vars

\* a Claimed top-up was answered 200 {ok: true} without a credit: its ref was that
\* of a top-up of the same millisecond
C36_AnsweredWithoutCredit ==
    \E r \in Reqs :
        /\ req[r].ep = "topup" /\ req[r].claim = "claimed" /\ Done(r)
        /\ Observed(r) = <<200, OkPlain>> /\ ~req[r].wrote
        /\ \E p \in Reqs : p # r /\ req[p].wrote /\ req[p].rpcRef = req[r].rpcRef

\* ------------------------------------------------------------------------
\* C37
\* ------------------------------------------------------------------------
\* C37: reset is all-or-nothing: a step that sets a positive balance to 0 writes the
\* manual_reset journal entry of that amount with it, and a reset that answers an
\* error (its journal insert failed) leaves the balance as it found it.
C37_Step ==
    \A r \in Reqs :
        LET u == req[r].userId IN
        /\ (/\ req[r].ep = "reset" /\ req[r].pc = "reset_zero" /\ req'[r].pc # "reset_zero"
            /\ BalanceOf(credits, tenantId, u) > 0)
                => /\ Len(tx_ledger') = Len(tx_ledger) + 1
                   /\ tx_ledger'[Len(tx_ledger')].kind = "manual_reset"
                   /\ tx_ledger'[Len(tx_ledger')].user_id = u
                   /\ tx_ledger'[Len(tx_ledger')].amount_cents = BalanceOf(credits, tenantId, u)
        /\ (/\ req[r].ep = "reset" /\ ~Done(r) /\ req'[r].pc = "done"
            /\ req'[r].status # 200)
                => BalanceOf(credits', tenantId, u) = req[r].balance

C37_ResetAllOrNothing == [][C37_Step]_vars

\* a reset answered 500 ledger_insert_failed after it had set a positive balance to
\* 0; the journal has no manual_reset entry written by it
C37_ZeroedThenFailed ==
    \E r \in Reqs :
        /\ req[r].ep = "reset" /\ Done(r)
        /\ Observed(r) = <<500, ErrBody("ledger_insert_failed")>>
        /\ req[r].balance > 0 /\ ~req[r].wrote
        /\ BalanceOf(credits, tenantId, req[r].userId) = 0

\* ------------------------------------------------------------------------
\* C38
\* ------------------------------------------------------------------------
\* the journal entry this request's RPC wrote
OwnEntry(q) ==
    \E i \in 1..Len(tx_ledger) :
        /\ tx_ledger[i].ref = q.rpcRef /\ tx_ledger[i].user_id = q.userId
        /\ tx_ledger[i].amount_cents = q.amount
        /\ tx_ledger[i].kind = (IF q.ep = "deduct" THEN "deduct" ELSE "topup")

\* C38: release(key) is executed only by a handler that has committed no ledger
\* mutation for its request; once its debit or credit has committed, no step of the
\* handler deletes the reservation: it is completed or left reserved.
C38_Step ==
    \A r \in Reqs :
        /\ (req[r].pc = "release" /\ req'[r].pc = "done")
            => ~req[r].wrote /\ tx_ledger' = tx_ledger
        /\ (req[r].wrote /\ req'[r] # req[r] /\ req[r].key \in DOMAIN idempotency_keys)
            => /\ req[r].key \in DOMAIN idempotency_keys'
               /\ ~req'[r].released

OwnRow(q) ==
    /\ q.key \in DOMAIN idempotency_keys
    /\ idempotency_keys[q.key].created_at = q.claimedAt
    /\ idempotency_keys[q.key].body_sha = hashBody(RawBody(q))
    /\ idempotency_keys[q.key].path = routePath(q.ep)

\* C39: persistResponse(key, ...) and release(key) only ever update or delete the
\* reservation that the calling request itself obtained as Claimed; the row of
\* another request that claimed the key later is left as it is.
C39_Step ==
    \A r \in Reqs :
        (req[r].pc \in {"persist", "release"} /\ req'[r].pc = "done"
         /\ idempotency_keys' # idempotency_keys)
            => OwnRow(req[r])

C39_OnlyOwnReservation == [][C39_Step]_vars

\* the answer of an earlier holder is stored in the row of a request that claimed
\* the key after the earlier reservation had expired
C39_ForeignResponseStored ==
    \E r, p \in Reqs :
        /\ r # p /\ SameKey(r, p) /\ req[r].claimed /\ req[p].claimed
        /\ req[r].claimedAt < req[p].claimedAt /\ req[p].evictions > 0
        /\ Done(r) /\ ~Done(p)
        /\ req[r].key \in DOMAIN idempotency_keys
        /\ idempotency_keys[req[r].key].created_at = req[p].claimedAt
        /\ idempotency_keys[req[r].key].response_status = req[r].status
        /\ req[r].status # NullStatus

\* ------------------------------------------------------------------------
\* C40
\* ------------------------------------------------------------------------
\* request r is a Claimed, well-formed deduct that came after request p had
\* committed a deduct entry under the same ref, and none of its store calls failed
RepeatsRef(r, p) ==
    /\ p < r /\ req[p].ep = "deduct" /\ req[r].ep = "deduct"
    /\ req[p].wrote /\ req[p].rpcRef = req[r].ref
    /\ req[r].key # req[p].key
    /\ req[r].claim = "claimed" /\ ~InvalidBody(req[r]) /\ Done(r)
    /\ req[r].status \notin {400, 500}

\* C40: a deduct whose ref already has a committed deduct entry, sent under a new
\* idempotency key, is answered 200 with the current balance, is never answered 402
\* and is never charged again, whatever the current balance is.
C40_RepeatedRef200 ==
    \A r, p \in Reqs :
        RepeatsRef(r, p)
            => /\ Observed(r) = <<200, OkBalance(BalanceOf(credits, tenantId, req[r].userId))>>
               /\ ~req[r].wrote

\* the repeated deduct met a balance below its amount and was answered 402
C40_Repeated402 ==
    \E r, p \in Reqs :
        /\ RepeatsRef(r, p) /\ Payload(req[r]) = Payload(req[p])
        /\ req[r].balance < req[r].amount
        /\ Is402For(req[r], req[r]) /\ ~req[r].wrote
====
